---- MODULE Spec2Model ----
(***************************************************************************)
(* TimeGuardian: the time-synchronisation engine.                          *)
(*   app/ntp_client.py  query_ntp (median aggregation), ping_servers       *)
(*                      (one thread per server behind a semaphore)         *)
(*   app/main.py        SyncState, NtpSyncManager (start, stop,            *)
(*                      _choose_server, _verify_and_apply_time, _run_loop) *)
(*                                                                         *)
(* Quantities the program holds as float milliseconds (rtt_ms, offset_ms,  *)
(* the wall clock) are integers counted in 1/UnitsPerMs of a millisecond;  *)
(* durations of time.sleep are counted in half seconds.                    *)
(***************************************************************************)
EXTENDS Integers, Sequences, FiniteSets, TLC

\* ------------------------------------------------------------------------
\* Bounds of the model
\* ------------------------------------------------------------------------
MaxServers == 3      \* longest server list handed to ping_servers
MaxThreads == 2      \* loop threads NtpSyncManager.start may create in a run
MaxLatency == 3      \* cap of the stop-latency stopwatch (half seconds)
MaxSamples == 3      \* largest `samples` handed to query_ntp
SecBits == 4         \* bits of a timestamp's seconds word ("!I": 32 in the source)

ServerNames == {"a", "b"}

\* ------------------------------------------------------------------------
\* NtpResult and the values of its fields
\* ------------------------------------------------------------------------
UnitsPerMs == 4

NoError == "None"

Abs(x) == IF x < 0 THEN -x ELSE x

Max(x, y) == IF x >= y THEN x ELSE y

NtpResult(server, rtt_ms, offset_ms, success, error) ==
    [server |-> server, rtt_ms |-> rtt_ms, offset_ms |-> offset_ms,
     success |-> success, error |-> error]

\* Python's None where an Optional[NtpResult] is held
None == NtpResult("", 0, 0, FALSE, "<None>")

\* One query_ntp_once outcome as query_ntp sees it: a successful exchange with
\* its rtt and offset, or a failure with its error text.
OnceOk(rtt, off) == [success |-> TRUE, rtt_ms |-> rtt, offset_ms |-> off, error |-> NoError]

OnceFail(err) == [success |-> FALSE, rtt_ms |-> 0, offset_ms |-> 0, error |-> err]

\* statistics.median: the middle element of the sorted data, or the mean of the
\* two middle elements
median(data) ==
    LET s == SortSeq(data, LAMBDA x, y : x < y)
        n == Len(s)
    IN  IF n % 2 = 1 THEN s[(n + 1) \div 2]
        ELSE (s[n \div 2] + s[n \div 2 + 1]) \div 2

\* Variant: the failed probes are kept among the results
SelectSuccess_All(outs) == outs

\* lines 104-105: the results list holds the successful probes, in call order
SelectSuccess(outs) == SelectSeq(outs, LAMBDA r : r.success)

\* Variant: the error of the first failed probe is kept
last_errOf_First(outs) ==
    LET f == SelectSeq(outs, LAMBDA r : ~r.success)
    IN  IF f = <<>> THEN NoError ELSE f[1].error

\* lines 101-107: last_err after the loop, None when no probe failed
last_errOf(outs) ==
    LET f == SelectSeq(outs, LAMBDA r : ~r.success)
    IN  IF f = <<>> THEN NoError ELSE f[Len(f)].error

\* query_ntp over the outcomes of its `samples` sequential query_ntp_once calls
query_ntp(server, outs) ==
    LET results == SelectSuccess(outs)
        last_err == last_errOf(outs)
    IN  IF results # <<>>
        THEN NtpResult(server,
                       median([i \in 1..Len(results) |-> results[i].rtt_ms]),
                       median([i \in 1..Len(results) |-> results[i].offset_ms]),
                       TRUE, NoError)
        ELSE NtpResult(server, 0, 0, FALSE,
                       IF last_err \in {NoError, ""} THEN "NTP failed" ELSE last_err)

\* ------------------------------------------------------------------------
\* State
\* ------------------------------------------------------------------------
VARIABLES
    servers,       \* ping_servers: the input list
    max_workers,   \* ping_servers: the semaphore's initial value
    has_cb,        \* ping_servers: progress_cb is not None
    results,       \* ping_servers: the preallocated slots
    sem,           \* free permits of the semaphore
    lock,          \* index of the worker holding the lock, 0 when free
    done_count,    \* the shared completion counter
    wpc,           \* worker idx -> its position
    ntp_err,       \* worker idx -> error of its failed query_ntp
    icmp_rtt,      \* worker idx -> what its _icmp_ping_windows call returned
    ppc,           \* ping_servers' own position: "spawn" (then join), "returned"
    pidx,          \* ping_servers: next thread to start
    ret,           \* the returned list
    cb_log,        \* the `done` argument of each progress_cb call, in call order
    first_done,    \* index of the worker that left the gate first, 0 before
    samples,       \* ping_servers: the samples argument
    pings          \* worker idx -> echo requests its ICMP fallback asked for

pvars == <<servers, max_workers, has_cb, results, sem, lock, done_count, wpc,
           ntp_err, icmp_rtt, ppc, pidx, ret, cb_log, first_done, samples,
           pings>>

VARIABLES
    cfg,                 \* Config.settings
    last_success_time,   \* SyncState
    last_result,         \* SyncState
    running,             \* SyncState
    stop_requested,      \* SyncState
    last_best_server,    \* SyncState
    thread,              \* NtpSyncManager.thread: index of the Thread, 0 for None
    nthreads,            \* Thread objects created so far
    loop,                \* thread -> position and locals of its _run_loop
    tick,                \* what the current tick of the loop has done so far
    wt,                  \* the wait that follows a tick, as performed
    stop_latency,        \* half seconds slept by a live loop since stop()
    exc_escaped,         \* an exception is leaving _run_loop
    unseen               \* per SyncState field: the loop's writes since the
                         \* status observer (for last_best_server: the
                         \* best-server callback) was last called, up to 2

svars == <<cfg, last_success_time, last_result, running, stop_requested,
           last_best_server, thread, nthreads, loop, tick, wt, stop_latency,
           exc_escaped, unseen>>

VARIABLES
    q_timeout,     \* query_ntp: timeout_ms
    q_samples,     \* query_ntp: samples, as passed
    q_env,         \* what each of the sequential probes meets: clocks, network
    q_once,        \* query_ntp: the query_ntp_once results so far, in call order
    q_res,         \* query_ntp: the returned result
    qpc            \* query_ntp's position: "idle", "loop", "returned", "raised"

qvars == <<q_timeout, q_samples, q_env, q_once, q_res, qpc>>

VARIABLES
    h_env,         \* what a correction request meets: files, shell, Windows calls
    h_ret,         \* what set_system_time_utc_via_helper returned
    h_spawned,     \* processes started by subprocess.run
    h_step,        \* the elevated helper process: position of its main()
    h_priv,        \* the elevated helper: what enable_set_time_privilege returned
    h_exit,        \* the elevated helper: its exit status
    hpc            \* set_system_time_utc_via_helper: "idle", "call", "returned"

hvars == <<h_env, h_ret, h_spawned, h_step, h_priv, h_exit, hpc>>

VARIABLES
    sn             \* the worker thread of TrayApp.sync_now: position and locals

mvars == <<sn>>

vars == <<pvars, svars, qvars, hvars, mvars>>

\* ------------------------------------------------------------------------
\* Settings (app/config.py) as the engine reads them
\* ------------------------------------------------------------------------
MinInterval == 15         \* seconds: max(15, int(check_interval_sec))
SleepPoll == 1            \* half seconds: time.sleep(0.5)
SleepDisabled == 2        \* half seconds: time.sleep(1.0)
SleepSettle == 6          \* half seconds: time.sleep(3.0)
SpinIntervalMin == 30     \* seconds: spin_interval.setRange(30, 86400)
DefaultThreshold == 200   \* milliseconds: drift_threshold_ms

Settings(auto, interval, servs, auto_select, preferred) ==
    [auto_sync_enabled |-> auto, check_interval_sec |-> interval,
     drift_threshold_ms |-> DefaultThreshold, ntp_servers |-> servs,
     auto_select_server |-> auto_select, preferred_server |-> preferred]

\* What config.json may hold when Config() loads it
LoadedSettings ==
    { Settings(TRUE, 2, <<"a", "b">>, TRUE, ""),
      Settings(TRUE, SpinIntervalMin, <<"a", "b">>, FALSE, "c"),
      Settings(FALSE, 2, <<>>, TRUE, "") }

\* What the user may have entered when the settings dialog is accepted:
\* auto sync, server list, auto select, preferred server
DialogInputs ==
    { <<TRUE, <<"a", "b">>, TRUE, "">>,
      <<TRUE, <<"a", "b">>, FALSE, "c">>,
      <<TRUE, <<>>, FALSE, "c">> }

\* time.time(), in 1/UnitsPerMs ms: the wall clock is an input of the program
NowVals == {4001}

\* The rounds of query_ntp_once outcomes behind one query_ntp(host, samples=3)
SchedRounds ==
    { <<OnceFail("timed out"), OnceFail("timed out"), OnceFail("timed out")>>,
      <<OnceOk(40, 600), OnceFail("timed out"), OnceFail("timed out")>>,
      <<OnceOk(40, 800), OnceOk(80, 800), OnceOk(80, -1002)>>,
      <<OnceOk(80, -1002), OnceOk(40, -1002), OnceFail("timed out")>> }

\* ... and behind the re-probe query_ntp(selected.server, samples=2)
RecheckRounds ==
    { <<OnceFail("timed out"), OnceFail("timed out")>>,
      <<OnceOk(40, 600), OnceOk(40, 600)>>,
      <<OnceOk(40, -1002), OnceFail("timed out")>> }

\* int(x) of Python on the quotient num/den: truncation toward zero
IntTrunc(num, den) == IF num >= 0 THEN num \div den ELSE -((-num) \div den)

\* ------------------------------------------------------------------------
\* SyncState and the loop thread's locals
\* ------------------------------------------------------------------------
Threads == 1..MaxThreads

Unborn ==
    [pc |-> "unborn", servers |-> <<>>, hi |-> 0, best |-> None,
     selected |-> None, host |-> "", slp |-> 0, after |-> "", slept |-> 0,
     interval |-> 0, exc |-> ""]

NoTick == [kind |-> "", via |-> "", round |-> <<>>, pref_failed |-> FALSE,
           selected |-> <<>>, compared |-> FALSE, reqs |-> <<>>,
           notified |-> <<>>, raised |-> FALSE,
           emit |-> <<>>, prev_best |-> "", auto_sel |-> FALSE,
           stamped |-> FALSE, manual0 |-> FALSE]

AllSeen == [last_result |-> 0, last_success_time |-> 0, running |-> 0,
            last_best_server |-> 0]

\* the loop assigns self.state.<f>
Wrote(u, f) == [u EXCEPT ![f] = IF @ < 2 THEN @ + 1 ELSE @]

\* self.on_status_changed() is called
Observed(u) == [u EXCEPT !.last_result = 0, !.last_success_time = 0, !.running = 0]

\* self.on_best_server_changed(server, rtt) is called
Announced(u) == [u EXCEPT !.last_best_server = 0]

NoWait == [kind |-> "", due |-> 0, waited |-> 0, max_step |-> 0]

is_alive(t) == loop[t].pc \notin {"unborn", "dead"}

Alive == {t \in Threads : is_alive(t)}

DefaultSettings == Settings(TRUE, SpinIntervalMin, <<"a", "b">>, TRUE, "")

\* SyncState.__init__ and NtpSyncManager.__init__
SyncStateInit ==
    /\ last_success_time = 0
    /\ last_result = None
    /\ running = FALSE
    /\ stop_requested = FALSE
    /\ last_best_server = ""
    /\ thread = 0
    /\ nthreads = 0
    /\ loop = [t \in Threads |-> Unborn]
    /\ tick = NoTick
    /\ wt = NoWait
    /\ stop_latency = 0
    /\ exc_escaped = FALSE
    /\ unseen = AllSeen

\* the scheduler while only ping_servers is looked at
SchedIdle == cfg = DefaultSettings /\ SyncStateInit

\* ---- the correction request (app/time_utils.py) and the elevated helper
\* ---- (elevated_time_setter.py)
\* What the request meets:
\*   argv_helper, pkg_helper  elevated_time_setter.py is a file next to
\*                            sys.argv[0], next to the package
\*   shell      subprocess.run(["powershell", ... Start-Process -Verb RunAs]):
\*              "cannot_start" it raises on starting powershell, "timeout" it
\*              raises TimeoutExpired, "rejected" powershell ends with an
\*              error because the elevation was refused, "issued" the
\*              elevated helper process was started
\*   epoch_ok   datetime.utcfromtimestamp accepts the target
\*   open_ok, lookup_ok, adjust_ok, set_ok   OpenProcessToken,
\*              LookupPrivilegeValueW, AdjustTokenPrivileges and SetSystemTime
\*              return nonzero; SetSystemTime enables the privilege it needs
\*              on its own account, so its result is not tied to the others
HelperEnvs ==
    [argv_helper : BOOLEAN, pkg_helper : BOOLEAN,
     shell : {"cannot_start", "timeout", "rejected", "issued"},
     epoch_ok : BOOLEAN, open_ok : BOOLEAN, lookup_ok : BOOLEAN,
     adjust_ok : BOOLEAN, set_ok : BOOLEAN]

\* lines 29-35: the helper file is looked for in two places
HelperFound(env) == env.argv_helper \/ env.pkg_helper

\* lines 35-50: the return value of set_system_time_utc_via_helper
set_system_time_utc_via_helper(env) ==
    IF ~HelperFound(env)
    THEN [ok |-> FALSE, msg |-> "Elevated helper not found."]
    ELSE IF env.shell = "timeout"
    THEN [ok |-> FALSE, msg |-> "Timed out requesting elevation."]
    ELSE IF env.shell = "cannot_start"
    THEN [ok |-> FALSE, msg |-> "Failed to invoke elevation: [WinError 2]"]
    ELSE [ok |-> TRUE, msg |-> "Elevation invoked (verification pending)."]

\* elevated_time_setter.py lines 49-64: the three calls, each ending the
\* function with False when it returns zero
enable_set_time_privilege(env) ==
    IF ~env.open_ok THEN FALSE
    ELSE IF ~env.lookup_ok THEN FALSE
    ELSE IF ~env.adjust_ok THEN FALSE
    ELSE TRUE

\* what a correction request can return to the scheduler
HelperReturns == {set_system_time_utc_via_helper(env) : env \in HelperEnvs}

\* (False, "") stands for no return value yet
NoReturn == [ok |-> FALSE, msg |-> ""]

NoExit == -1

NoEnv == [argv_helper |-> FALSE, pkg_helper |-> FALSE, shell |-> "",
          epoch_ok |-> FALSE, open_ok |-> FALSE, lookup_ok |-> FALSE,
          adjust_ok |-> FALSE, set_ok |-> FALSE]

\* no correction request is looked at on its own
HelperIdle ==
    /\ h_env = NoEnv
    /\ h_ret = NoReturn
    /\ h_spawned = 0
    /\ h_step = "none"
    /\ h_priv = "unset"
    /\ h_exit = NoExit
    /\ hpc = "idle"

\* no sync_now worker has been started
NoSn == [pc |-> "idle", servers |-> <<>>, hi |-> 0, best |-> None, res |-> None,
         host |-> "", slp |-> 0, exc |-> "", reqs |-> <<>>]

ManualIdle == sn = NoSn

\* no query_ntp call is looked at on its own
QueryIdle ==
    /\ q_timeout = 0
    /\ q_samples = 0
    /\ q_env = <<>>
    /\ q_once = <<>>
    /\ q_res = None
    /\ qpc = "idle"

\* ------------------------------------------------------------------------
\* ping_servers
\* ------------------------------------------------------------------------
\* The rounds of query_ntp_once outcomes a ping worker's query_ntp can see
PingRounds ==
    { <<OnceFail("timed out"), OnceOk(40, 8), OnceOk(80, 16)>>,
      <<OnceFail(""), OnceFail("timed out"), OnceFail("")>> }

\* _icmp_ping_windows returned None; no call of it was made
IcmpNone == -1

NotCalled == -2

\* what _icmp_ping_windows may return: None, or the median latency
IcmpOutcomes == {IcmpNone, 25 * UnitsPerMs}

\* samples: int = 3 of ping_servers
DefaultSamples == 3

\* The values of samples handed to ping_servers; the argument plays no part
\* in the interplay of the workers and varies over the calls with at most one
\* server
SampleCounts == 1..DefaultSamples

\* line 162: samples=max(2, samples)
FallbackSamples(k) == Max(2, k)

\* line 122: "-n", str(max(1, int(samples)))
PingCount(k) == Max(1, k)

InGate(i) == wpc[i] \in {"gate", "icmp"}

InFlight == {i \in 1..Len(servers) : InGate(i)}

SeqsUpTo(S, n) == UNION {[1..k -> S] : k \in 0..n}

\* The values of max_workers handed to ping_servers
WorkerLimits == {1, 2}

\* The server lists handed to ping_servers, duplicates included; which name
\* comes first makes no difference to the code
PingInputs == {l \in SeqsUpTo(ServerNames, MaxServers) : l = <<>> \/ l[1] = "a"}

\* ping_servers is entered: lines 149-154
PingStart(lists, limits) ==
    /\ servers \in lists
    /\ samples \in IF Len(servers) <= 1 THEN SampleCounts ELSE {DefaultSamples}
    /\ pings = [i \in 1..Len(servers) |-> 0]
    /\ max_workers \in limits
    /\ has_cb \in BOOLEAN
    /\ results = [i \in 1..Len(servers) |-> None]
    /\ sem = max_workers
    /\ lock = 0
    /\ done_count = 0
    /\ wpc = [i \in 1..Len(servers) |-> "unstarted"]
    /\ ntp_err = [i \in 1..Len(servers) |-> NoError]
    /\ icmp_rtt = [i \in 1..Len(servers) |-> NotCalled]
    /\ ppc = "spawn"
    /\ pidx = 1
    /\ ret = <<>>
    /\ cb_log = <<>>
    /\ first_done = 0
    /\ SchedIdle
    /\ QueryIdle
    /\ HelperIdle
    /\ ManualIdle

InitPing == PingStart(PingInputs, WorkerLimits)

\* for i, s in enumerate(servers): Thread(target=worker, args=(i, s)).start()
SpawnWorker ==
    /\ ppc = "spawn"
    /\ pidx <= Len(servers)
    /\ wpc' = [wpc EXCEPT ![pidx] = "waitsem"]
    /\ pidx' = pidx + 1
    /\ UNCHANGED <<servers, max_workers, has_cb, samples, pings, results, sem, lock, done_count,
                   ntp_err, icmp_rtt, ppc, ret, cb_log, first_done>>
    /\ UNCHANGED <<svars, qvars, hvars, mvars>>

\* Variant: the worker enters without waiting for a permit
WorkerAcquire_NoGate(i) ==
    /\ wpc[i] = "waitsem"
    /\ sem' = sem - 1
    /\ wpc' = [wpc EXCEPT ![i] = "gate"]
    /\ UNCHANGED <<servers, max_workers, has_cb, samples, pings, results, done_count, lock,
                   ntp_err, icmp_rtt, ppc, pidx, ret, cb_log, first_done>>
    /\ UNCHANGED <<svars, qvars, hvars, mvars>>

\* worker: with sem: (acquire)
WorkerAcquire(i) ==
    /\ wpc[i] = "waitsem"
    /\ sem > 0
    /\ sem' = sem - 1
    /\ wpc' = [wpc EXCEPT ![i] = "gate"]
    /\ UNCHANGED <<servers, max_workers, has_cb, samples, pings, results, done_count, lock,
                   ntp_err, icmp_rtt, ppc, pidx, ret, cb_log, first_done>>
    /\ UNCHANGED <<svars, qvars, hvars, mvars>>

\* Variant: every worker writes the first slot
Slot_First(idx) == 1

\* results[idx] = ...: the slot a worker writes is the one of its own index
Slot(idx) == idx

\* worker: ntp_res = query_ntp(...); a success is stored and the gate is left
WorkerQuery(i) ==
    /\ wpc[i] = "gate"
    /\ \E outs \in PingRounds :
         LET ntp_res == query_ntp(servers[i], SubSeq(outs, 1, samples))
         IN  IF ntp_res.success
             THEN /\ results' = [results EXCEPT ![Slot(i)] = ntp_res]
                  /\ sem' = sem + 1
                  /\ wpc' = [wpc EXCEPT ![i] = "waitlock"]
                  /\ first_done' = IF first_done = 0 THEN i ELSE first_done
                  /\ UNCHANGED ntp_err
             ELSE /\ ntp_err' = [ntp_err EXCEPT ![i] = ntp_res.error]
                  /\ wpc' = [wpc EXCEPT ![i] = "icmp"]
                  /\ UNCHANGED <<results, sem, first_done>>
    /\ UNCHANGED <<servers, max_workers, has_cb, samples, pings, done_count, lock, icmp_rtt,
                   ppc, pidx, ret, cb_log>>
    /\ UNCHANGED <<svars, qvars, hvars, mvars>>

\* worker: query_ntp raises (socket creation, struct.pack_into): the with
\* statement releases the semaphore and the thread ends with its slot unwritten
WorkerRaise(i) ==
    /\ wpc[i] = "gate"
    /\ sem' = sem + 1
    /\ wpc' = [wpc EXCEPT ![i] = "raised"]
    /\ first_done' = IF first_done = 0 THEN i ELSE first_done
    /\ UNCHANGED <<servers, max_workers, has_cb, samples, pings, results, done_count, lock,
                   ntp_err, icmp_rtt, ppc, pidx, ret, cb_log>>
    /\ UNCHANGED <<svars, qvars, hvars, mvars>>

\* Variant: a latency obtained by ICMP makes the result a success
FallbackResult_AsSuccess(server, err, rtt) ==
    IF rtt # IcmpNone
    THEN NtpResult(server, rtt, 0, TRUE, "ICMP fallback")
    ELSE NtpResult(server, 0, 0, FALSE,
                   IF err \in {NoError, ""} THEN "NTP failed" ELSE err)

\* lines 164-167: the result of a server whose query_ntp failed with error err
\* and whose _icmp_ping_windows call returned rtt
FallbackResult(server, err, rtt) ==
    IF rtt # IcmpNone
    THEN NtpResult(server, rtt, 0, FALSE, "ICMP fallback")
    ELSE NtpResult(server, 0, 0, FALSE,
                   IF err \in {NoError, ""} THEN "NTP failed" ELSE err)

\* worker: the ICMP fallback, the slot write and the release of the semaphore
WorkerIcmp(i) ==
    /\ wpc[i] = "icmp"
    /\ \E rtt \in IcmpOutcomes :
         /\ icmp_rtt' = [icmp_rtt EXCEPT ![i] = rtt]
         /\ results' = [results EXCEPT ![Slot(i)] =
                            FallbackResult(servers[i], ntp_err[i], rtt)]
    /\ sem' = sem + 1
    /\ wpc' = [wpc EXCEPT ![i] = "waitlock"]
    /\ first_done' = IF first_done = 0 THEN i ELSE first_done
    /\ pings' = [pings EXCEPT ![i] = PingCount(FallbackSamples(samples))]
    /\ UNCHANGED <<servers, max_workers, has_cb, samples, done_count, lock, ntp_err,
                   ppc, pidx, ret, cb_log>>
    /\ UNCHANGED <<svars, qvars, hvars, mvars>>

\* worker: with lock: done_count += 1; progress_cb(done_count, total) is entered
WorkerLock(i) ==
    /\ wpc[i] = "waitlock"
    /\ lock = 0
    /\ done_count' = done_count + 1
    /\ IF has_cb
       THEN /\ lock' = i
            /\ cb_log' = Append(cb_log, done_count + 1)
            /\ wpc' = [wpc EXCEPT ![i] = "incb"]
       ELSE /\ wpc' = [wpc EXCEPT ![i] = "done"]
            /\ UNCHANGED <<lock, cb_log>>
    /\ UNCHANGED <<servers, max_workers, has_cb, samples, pings, results, sem, ntp_err, icmp_rtt, ppc,
                   pidx, ret, first_done>>
    /\ UNCHANGED <<svars, qvars, hvars, mvars>>

\* worker: progress_cb returns or raises (the exception is swallowed); the lock
\* is released
WorkerCbEnd(i) ==
    /\ wpc[i] = "incb"
    /\ lock' = 0
    /\ wpc' = [wpc EXCEPT ![i] = "done"]
    /\ UNCHANGED <<servers, max_workers, has_cb, samples, pings, results, sem, done_count,
                   ntp_err, icmp_rtt, ppc, pidx, ret, cb_log, first_done>>
    /\ UNCHANGED <<svars, qvars, hvars, mvars>>

\* Variant: the unwritten slots are left out of the returned list
FillUnknown_DropNone(res, srv) == SelectSeq(res, LAMBDA r : r # None)

\* Variant: an unwritten slot is filled like a failed probe
FillUnknown_AsNtpFailed(res, srv) ==
    [i \in 1..Len(res) |->
        IF res[i] # None THEN res[i] ELSE NtpResult(srv[i], 0, 0, FALSE, "NTP failed")]

\* the return expression: an unwritten slot becomes an "Unknown" failure
FillUnknown(res, srv) ==
    [i \in 1..Len(res) |->
        IF res[i] # None THEN res[i] ELSE NtpResult(srv[i], 0, 0, FALSE, "Unknown")]

\* Variant: the threads are not waited for
Joined_NoWait(w) == TRUE

\* lines 181-182: for t in threads: t.join() has come through
Joined(w) == \A i \in 1..Len(w) : w[i] \in {"done", "raised"}

\* for t in threads: t.join(), then the return: every thread was started and
\* has ended
PingReturn ==
    /\ ppc = "spawn"
    /\ pidx > Len(servers)
    /\ Joined(wpc)
    /\ ret' = FillUnknown(results, servers)
    /\ ppc' = "returned"
    /\ UNCHANGED <<servers, max_workers, has_cb, samples, pings, results, sem, lock, done_count,
                   wpc, ntp_err, icmp_rtt, pidx, cb_log, first_done>>
    /\ UNCHANGED <<svars, qvars, hvars, mvars>>

NextPing ==
    \/ SpawnWorker
    \/ \E i \in 1..Len(servers) : WorkerAcquire(i)
    \/ \E i \in 1..Len(servers) : WorkerQuery(i)
    \/ \E i \in 1..Len(servers) : WorkerRaise(i)
    \/ \E i \in 1..Len(servers) : WorkerIcmp(i)
    \/ \E i \in 1..Len(servers) : WorkerLock(i)
    \/ \E i \in 1..Len(servers) : WorkerCbEnd(i)
    \/ PingReturn

SpecPing == InitPing /\ [][NextPing]_vars

\* ---- ping_servers under a fair scheduler ----
\* The values of max_workers when termination is looked at: Semaphore(0) is a
\* semaphore too
LiveLimits == {0, 1, 2}

\* the calls over one name: a server's name plays no part in the order of
\* the workers' steps
InitPingLive ==
    PingStart({l \in PingInputs : \A i \in 1..Len(l) : l[i] = "a"}, LiveLimits)

\* one step of the thread that runs ping_servers
PingMain == SpawnWorker \/ PingReturn

\* one step of the worker thread of index i; every probe, ping and callback
\* returns
Worker(i) ==
    /\ i <= Len(servers)
    /\ \/ WorkerAcquire(i)
       \/ WorkerQuery(i)
       \/ WorkerRaise(i)
       \/ WorkerIcmp(i)
       \/ WorkerLock(i)
       \/ WorkerCbEnd(i)

NextPingLive ==
    \/ PingMain
    \/ \E i \in 1..MaxServers : Worker(i)

SpecPingLive ==
    /\ InitPingLive
    /\ [][NextPingLive]_vars
    /\ WF_vars(PingMain)
    /\ \A i \in 1..MaxServers : WF_vars(Worker(i))

\* ------------------------------------------------------------------------
\* NtpSyncManager
\* ------------------------------------------------------------------------

\* no ping_servers call is in progress while the scheduler is looked at
PingIdle ==
    /\ samples = DefaultSamples
    /\ pings = <<>>
    /\ servers = <<>>
    /\ max_workers = 1
    /\ has_cb = FALSE
    /\ results = <<>>
    /\ sem = 1
    /\ lock = 0
    /\ done_count = 0
    /\ wpc = <<>>
    /\ ntp_err = <<>>
    /\ icmp_rtt = <<>>
    /\ ppc = "idle"
    /\ pidx = 1
    /\ ret = <<>>
    /\ cb_log = <<>>
    /\ first_done = 0

\* Config() has loaded config.json: any settings
Init ==
    /\ PingIdle
    /\ QueryIdle
    /\ HelperIdle
    /\ ManualIdle
    /\ cfg \in LoadedSettings
    /\ SyncStateInit

\* Variant: start() tests the running flag instead of Thread.is_alive()
start_ByRunningFlag ==
    IF running
    THEN UNCHANGED <<stop_requested, thread, nthreads, loop, stop_latency>>
    ELSE /\ nthreads < MaxThreads
         /\ stop_requested' = FALSE
         /\ nthreads' = nthreads + 1
         /\ thread' = nthreads + 1
         /\ loop' = [loop EXCEPT ![nthreads + 1] = [Unborn EXCEPT !.pc = "started"]]
         /\ stop_latency' = 0

\* NtpSyncManager.start, under self._lock
start ==
    IF thread # 0 /\ is_alive(thread)
    THEN UNCHANGED <<stop_requested, thread, nthreads, loop, stop_latency>>
    ELSE /\ nthreads < MaxThreads
         /\ stop_requested' = FALSE
         /\ nthreads' = nthreads + 1
         /\ thread' = nthreads + 1
         /\ loop' = [loop EXCEPT ![nthreads + 1] = [Unborn EXCEPT !.pc = "started"]]
         /\ stop_latency' = 0

\* NtpSyncManager.stop
stop == stop_requested' = TRUE

Start ==
    /\ start
    /\ UNCHANGED <<cfg, last_success_time, last_result, running,
                   last_best_server, tick, wt, exc_escaped,
                   unseen>>
    /\ UNCHANGED <<pvars, qvars, hvars, mvars>>

Stop ==
    /\ stop
    /\ UNCHANGED <<cfg, last_success_time, last_result, running,
                   last_best_server, thread, nthreads, loop, tick, wt,
                   stop_latency, exc_escaped,
                   unseen>>
    /\ UNCHANGED <<pvars, qvars, hvars, mvars>>

\* TrayApp.toggle_auto_sync
ToggleAutoSync(checked) ==
    /\ cfg' = [cfg EXCEPT !.auto_sync_enabled = checked]
    /\ IF checked
       THEN start
       ELSE /\ stop
            /\ UNCHANGED <<thread, nthreads, loop, stop_latency>>
    /\ UNCHANGED <<last_success_time, last_result, running, last_best_server,
                   tick, wt, exc_escaped,
                   unseen>>
    /\ UNCHANGED <<pvars, qvars, hvars, mvars>>

\* SettingsDialog.accept: the fields are taken from the widgets; an empty
\* server list ends the handler after ntp_servers was assigned
Accept(auto, servs, auto_select, preferred) ==
    /\ cfg' = IF servs = <<>>
              THEN [cfg EXCEPT !.auto_sync_enabled = auto,
                               !.check_interval_sec = SpinIntervalMin,
                               !.drift_threshold_ms = DefaultThreshold,
                               !.ntp_servers = servs]
              ELSE Settings(auto, SpinIntervalMin, servs, auto_select, preferred)
    /\ UNCHANGED <<last_success_time, last_result, running, stop_requested,
                   last_best_server, thread, nthreads, loop, tick, wt,
                   stop_latency, exc_escaped,
                   unseen>>
    /\ UNCHANGED <<pvars, qvars, hvars, mvars>>

\* ---- _run_loop, one action per step of the thread ----

Goto(t, r) == loop' = [loop EXCEPT ![t] = r]

\* time.sleep(d) begins: the thread resumes at `after` once d half seconds passed
Sleeping(l, d, after) ==
    IF d > 0 THEN [l EXCEPT !.pc = "sleep", !.slp = d, !.after = after]
    ELSE [l EXCEPT !.pc = after]

\* line 93: self.state.running = True
LoopEnter(t) ==
    /\ loop[t].pc = "started"
    /\ running' = TRUE
    /\ Goto(t, [loop[t] EXCEPT !.pc = "head"])
    /\ UNCHANGED <<cfg, last_success_time, last_result, stop_requested,
                   last_best_server, thread, nthreads, tick, wt, stop_latency,
                   exc_escaped>>
    /\ unseen' = Wrote(unseen, "running")
    /\ UNCHANGED <<pvars, qvars, hvars, mvars>>

\* Variant: the while test does not see the stop request
StopSeen_Never(flag) == FALSE

\* line 95: while not self.state.stop_requested
StopSeen(flag) == flag

\* Variant: the auto-sync flag is never found off
AutoSyncOff_Never(s) == FALSE

\* line 96: if not self.cfg.settings.auto_sync_enabled
AutoSyncOff(s) == ~s.auto_sync_enabled

\* lines 95-101 and 56-61: the while test, the auto-sync poll, and the entry of
\* _choose_server up to its first probe
LoopHead(t) ==
    /\ loop[t].pc = "head"
    /\ wt' = NoWait
    /\ IF StopSeen(stop_requested)
       THEN /\ Goto(t, [loop[t] EXCEPT !.pc = "fin"])
            /\ tick' = NoTick
       ELSE IF AutoSyncOff(cfg)
       THEN /\ Goto(t, Sleeping(loop[t], SleepDisabled, "head"))
            /\ tick' = NoTick
       ELSE IF cfg.ntp_servers = <<>>
       THEN /\ Goto(t, [loop[t] EXCEPT !.pc = "got", !.selected = None])
            /\ tick' = [NoTick EXCEPT !.kind = "probing", !.via = "empty",
                                      !.manual0 = ~cfg.auto_select_server
                                                  /\ cfg.preferred_server # ""]
       ELSE IF ~cfg.auto_select_server /\ cfg.preferred_server # ""
       THEN /\ Goto(t, [loop[t] EXCEPT !.pc = "ch_pref",
                                       !.servers = cfg.ntp_servers,
                                       !.host = cfg.preferred_server])
            /\ tick' = [NoTick EXCEPT !.kind = "probing", !.via = "manual",
                                      !.manual0 = TRUE]
       ELSE /\ Goto(t, [loop[t] EXCEPT !.pc = "ch_host", !.hi = 1,
                                       !.servers = cfg.ntp_servers])
            /\ tick' = [NoTick EXCEPT !.kind = "probing", !.via = "auto"]
    /\ UNCHANGED <<cfg, last_success_time, last_result, running, stop_requested,
                   last_best_server, thread, nthreads, stop_latency,
                   exc_escaped,
                   unseen>>
    /\ UNCHANGED <<pvars, qvars, hvars, mvars>>

\* Variant: a failed sample is taken like a successful one
Usable_Any(res) == TRUE

\* lines 63 and 69: if res.success
Usable(res) == res.success

\* Variant: a failed preferred probe ends the selection with no server
ChoosePreferred_NoFallback(t) ==
    /\ loop[t].pc = "ch_pref"
    /\ \E outs \in SchedRounds :
         LET res == query_ntp(loop[t].host, outs)
         IN  IF res.success
             THEN /\ Goto(t, [loop[t] EXCEPT !.pc = "got", !.selected = res,
                                             !.host = ""])
                  /\ tick' = [tick EXCEPT !.via = "preferred"]
             ELSE /\ Goto(t, [loop[t] EXCEPT !.pc = "got", !.selected = None,
                                             !.host = ""])
                  /\ tick' = [tick EXCEPT !.pref_failed = TRUE]
    /\ UNCHANGED <<cfg, last_success_time, last_result, running, stop_requested,
                   last_best_server, thread, nthreads, wt, stop_latency,
                   exc_escaped,
                   unseen>>
    /\ UNCHANGED <<pvars, qvars, hvars, mvars>>

\* lines 62-64: the preferred server's probe
ChoosePreferred(t) ==
    /\ loop[t].pc = "ch_pref"
    /\ \E outs \in SchedRounds :
         LET res == query_ntp(loop[t].host, outs)
         IN  IF Usable(res)
             THEN /\ Goto(t, [loop[t] EXCEPT !.pc = "got", !.selected = res,
                                             !.host = ""])
                  /\ tick' = [tick EXCEPT !.via = "preferred"]
             ELSE /\ Goto(t, [loop[t] EXCEPT !.pc = "ch_host", !.hi = 1,
                                             !.host = ""])
                  /\ tick' = [tick EXCEPT !.pref_failed = TRUE]
    /\ UNCHANGED <<cfg, last_success_time, last_result, running, stop_requested,
                   last_best_server, thread, nthreads, wt, stop_latency,
                   exc_escaped,
                   unseen>>
    /\ UNCHANGED <<pvars, qvars, hvars, mvars>>

\* Variant: a later server with the same rtt replaces best
Better_OrEqual(res, best) == best = None \/ res.rtt_ms <= best.rtt_ms

\* line 70: the comparison that replaces best
Better(res, best) == best = None \/ res.rtt_ms < best.rtt_ms

\* lines 67-71: one iteration of for host in servers
ChooseHost(t) ==
    /\ loop[t].pc = "ch_host"
    /\ loop[t].hi <= Len(loop[t].servers)
    /\ \E outs \in SchedRounds :
         LET res == query_ntp(loop[t].servers[loop[t].hi], outs)
         IN  /\ Goto(t, [loop[t] EXCEPT
                            !.hi = @ + 1,
                            !.best = IF Usable(res) /\ Better(res, @) THEN res ELSE @])
             /\ tick' = [tick EXCEPT !.round = Append(@, res)]
    /\ UNCHANGED <<cfg, last_success_time, last_result, running, stop_requested,
                   last_best_server, thread, nthreads, wt, stop_latency,
                   exc_escaped,
                   unseen>>
    /\ UNCHANGED <<pvars, qvars, hvars, mvars>>

\* Variant: the winner is announced without looking at the remembered server
ShouldAnnounce_NoCompare(best, auto_select, remembered) ==
    best # None /\ auto_select

\* Variant: the winner is announced in manual mode too
ShouldAnnounce_AnyMode(best, auto_select, remembered) ==
    best # None /\ best.server # remembered

\* line 73: if best and s.auto_select_server and best.server != last_best_server
ShouldAnnounce(best, auto_select, remembered) ==
    best # None /\ auto_select /\ best.server # remembered

\* lines 72-80: the announcement (a raising callback is swallowed) and the
\* return; tick.emit holds the arguments of the on_best_server_changed call
ChooseReturn(t) ==
    /\ loop[t].pc = "ch_host"
    /\ loop[t].hi > Len(loop[t].servers)
    /\ LET best == loop[t].best
           announce == ShouldAnnounce(best, cfg.auto_select_server, last_best_server)
       IN  /\ last_best_server' = IF announce THEN best.server ELSE last_best_server
           /\ tick' = [tick EXCEPT
                         !.emit = IF announce THEN << <<best.server, best.rtt_ms>> >>
                                  ELSE <<>>,
                         !.prev_best = last_best_server,
                         !.auto_sel = cfg.auto_select_server]
           /\ Goto(t, [loop[t] EXCEPT !.pc = "got", !.selected = best,
                                       !.best = None, !.hi = 0])
    /\ UNCHANGED <<cfg, last_success_time, last_result, running, stop_requested,
                   thread, nthreads, wt, stop_latency, exc_escaped>>
    /\ unseen' = IF ShouldAnnounce(loop[t].best, cfg.auto_select_server, last_best_server)
                 THEN Announced(Wrote(unseen, "last_best_server"))
                 ELSE unseen
    /\ UNCHANGED <<pvars, qvars, hvars, mvars>>

\* query_ntp raises inside the tick (socket creation, struct.pack_into)
ProbeRaise(t) ==
    /\ \/ loop[t].pc = "ch_pref"
       \/ loop[t].pc = "ch_host" /\ loop[t].hi <= Len(loop[t].servers)
       \/ loop[t].pc = "recheck"
    /\ Goto(t, [Unborn EXCEPT !.pc = "except", !.exc = "OSError"])
    /\ tick' = [tick EXCEPT !.round = <<>>]
    /\ UNCHANGED <<cfg, last_success_time, last_result, running, stop_requested,
                   last_best_server, thread, nthreads, wt, stop_latency,
                   exc_escaped,
                   unseen>>
    /\ UNCHANGED <<pvars, qvars, hvars, mvars>>

NoServer == NtpResult("(none)", 0, 0, FALSE, "No server available")

\* Variant: the status observer is not called
StatusChanged_Silent(seen, published) == seen

\* lines 104-105 and 110-111: self.on_status_changed() is called and returns;
\* the observer sees the sample that last_result holds
StatusChanged(seen, published) == [seen EXCEPT !.notified = <<published>>]

\* lines 102-111: last_result is assigned and the status observer is called;
\* with no server the thread then sleeps check_interval_sec and continues
LoopPublish(t) ==
    /\ loop[t].pc = "got"
    /\ LET selected == loop[t].selected
           published == IF selected = None THEN NoServer ELSE selected
           kind == IF selected = None THEN "none" ELSE "sel"
           seen == [tick EXCEPT !.kind = kind, !.round = <<>>,
                                !.selected = <<published>>, !.emit = <<>>,
                                !.prev_best = "", !.auto_sel = FALSE]
       IN  /\ last_result' = published
           /\ \/ /\ tick' = StatusChanged(seen, published)
                 /\ IF selected = None
                    THEN /\ Goto(t, Sleeping(Unborn, 2 * cfg.check_interval_sec, "head"))
                         /\ wt' = [kind |-> "none",
                                   due |-> 2 * Max(MinInterval, cfg.check_interval_sec),
                                   waited |-> 0,
                                   max_step |-> 2 * cfg.check_interval_sec]
                    ELSE /\ Goto(t, [loop[t] EXCEPT !.pc = "verify", !.servers = <<>>])
                         /\ UNCHANGED wt
              \/ /\ tick' = seen
                 /\ Goto(t, [Unborn EXCEPT !.pc = "except", !.exc = "observer"])
                 /\ UNCHANGED wt
    /\ UNCHANGED <<cfg, last_success_time, running, stop_requested,
                   last_best_server, thread, nthreads, stop_latency,
                   exc_escaped>>
    /\ unseen' = Observed(Wrote(unseen, "last_result"))
    /\ UNCHANGED <<pvars, qvars, hvars, mvars>>

\* Variant: the sign of the drift is not removed
Within_NoAbs(drift, threshold) == drift < threshold

\* line 85: the drift comparison
Within(drift, threshold) == Abs(drift) < threshold

\* line 88: int((now_epoch + (drift / 1000.0)) * 1000)
TargetEpochMs(now, drift) == IntTrunc(now + drift, UnitsPerMs)

\* lines 113-122 with _verify_and_apply_time: the comparison, and above the
\* threshold the call of set_system_time_utc_via_helper, which reports whether
\* the elevation was invoked
LoopVerify(t) ==
    /\ loop[t].pc = "verify"
    /\ LET threshold == cfg.drift_threshold_ms * UnitsPerMs
           drift == loop[t].selected.offset_ms
       IN  \E now \in NowVals :
             IF Within(drift, threshold)
             THEN /\ tick' = [tick EXCEPT !.compared = TRUE, !.stamped = TRUE]
                  /\ last_success_time' = now
                  /\ Goto(t, [loop[t] EXCEPT !.pc = "notify"])
             ELSE \E ok \in {r.ok : r \in HelperReturns} :
                  /\ tick' = [tick EXCEPT
                                !.compared = TRUE,
                                !.stamped = ~ok,
                                !.reqs = Append(@, [target_epoch_ms |-> TargetEpochMs(now, drift),
                                                    now |-> now, drift |-> drift,
                                                    ok |-> ok])]
                  /\ IF ok
                     THEN /\ Goto(t, Sleeping(loop[t], SleepSettle, "recheck"))
                          /\ UNCHANGED last_success_time
                     ELSE /\ Goto(t, [loop[t] EXCEPT !.pc = "notify"])
                          /\ last_success_time' = now
    /\ UNCHANGED <<cfg, last_result, running, stop_requested, last_best_server,
                   thread, nthreads, wt, stop_latency, exc_escaped>>
    /\ unseen' = IF loop'[t].pc = "notify"   \* line 122 was run
                 THEN Wrote(unseen, "last_success_time")
                 ELSE unseen
    /\ UNCHANGED <<pvars, qvars, hvars, mvars>>

\* lines 116-120: the re-probe; both branches record the success time
LoopRecheck(t) ==
    /\ loop[t].pc = "recheck"
    /\ \E outs \in RecheckRounds, now \in NowVals :
         LET recheck == query_ntp(loop[t].selected.server, outs)
         IN  IF recheck.success
                /\ Within(recheck.offset_ms, cfg.drift_threshold_ms * UnitsPerMs)
             THEN last_success_time' = now
             ELSE last_success_time' = now
    /\ tick' = [tick EXCEPT !.stamped = TRUE]
    /\ Goto(t, [loop[t] EXCEPT !.pc = "notify"])
    /\ UNCHANGED <<cfg, last_result, running, stop_requested, last_best_server,
                   thread, nthreads, wt, stop_latency, exc_escaped>>
    /\ unseen' = Wrote(unseen, "last_success_time")
    /\ UNCHANGED <<pvars, qvars, hvars, mvars>>

\* lines 124-125: except Exception as e
LoopExcept(t) ==
    /\ loop[t].pc = "except"
    /\ last_result' = NtpResult("(error)", 0, 0, FALSE, loop[t].exc)
    /\ tick' = [tick EXCEPT !.raised = TRUE]
    /\ Goto(t, [loop[t] EXCEPT !.pc = "notify", !.exc = ""])
    /\ UNCHANGED <<cfg, last_success_time, running, stop_requested,
                   last_best_server, thread, nthreads, wt, stop_latency,
                   exc_escaped>>
    /\ unseen' = Wrote(unseen, "last_result")
    /\ UNCHANGED <<pvars, qvars, hvars, mvars>>

\* lines 132-134: the test of the wait loop; when it holds time.sleep(0.5) is
\* entered and slept += 0.5 follows it
WaitTest(l) ==
    IF l.slept < 2 * l.interval /\ ~stop_requested
    THEN Sleeping([l EXCEPT !.slept = @ + SleepPoll], SleepPoll, "wait")
    ELSE [Unborn EXCEPT !.pc = "head"]

\* lines 127-132: the status observer is called outside the inner try; when it
\* returns the interval is computed and the wait loop entered, when it raises
\* the exception leaves the while loop through the finally clause
LoopNotify(t) ==
    /\ loop[t].pc = "notify"
    /\ \/ LET l == WaitTest([Unborn EXCEPT
                               !.pc = "wait", !.slept = 0,
                               !.interval = Max(MinInterval, cfg.check_interval_sec)])
          IN  /\ tick' = NoTick
              /\ Goto(t, l)
              /\ wt' = [kind |-> "tick",
                        due |-> 2 * Max(MinInterval, cfg.check_interval_sec),
                        waited |-> 0,
                        max_step |-> IF l.pc = "sleep" THEN SleepPoll ELSE 0]
              /\ UNCHANGED exc_escaped
       \/ /\ exc_escaped' = TRUE
          /\ Goto(t, [Unborn EXCEPT !.pc = "fin"])
          /\ UNCHANGED <<tick, wt>>
    /\ UNCHANGED <<cfg, last_success_time, last_result, running, stop_requested,
                   last_best_server, thread, nthreads, stop_latency>>
    /\ unseen' = Observed(unseen)
    /\ UNCHANGED <<pvars, qvars, hvars, mvars>>

\* half a second of a time.sleep passes; nothing interrupts the sleep. When the
\* sleep of the wait loop ends, the loop's test follows at once.
LoopSleep(t) ==
    /\ loop[t].pc = "sleep"
    /\ LET woken == [loop[t] EXCEPT !.pc = loop[t].after, !.slp = 0, !.after = ""]
       IN  Goto(t, IF loop[t].slp > 1 THEN [loop[t] EXCEPT !.slp = @ - 1]
                   ELSE IF loop[t].after = "wait" THEN WaitTest(woken)
                   ELSE woken)
    /\ stop_latency' = IF stop_requested /\ stop_latency < MaxLatency
                       THEN stop_latency + 1 ELSE stop_latency
    /\ wt' = IF wt.kind # "" THEN [wt EXCEPT !.waited = @ + 1] ELSE wt
    /\ UNCHANGED <<cfg, last_success_time, last_result, running, stop_requested,
                   last_best_server, thread, nthreads, tick, exc_escaped,
                   unseen>>
    /\ UNCHANGED <<pvars, qvars, hvars, mvars>>

\* lines 135-136: finally: self.state.running = False; the thread ends
LoopFinally(t) ==
    /\ loop[t].pc = "fin"
    /\ running' = FALSE
    /\ Goto(t, [Unborn EXCEPT !.pc = "dead"])
    /\ tick' = NoTick
    /\ wt' = NoWait
    /\ stop_latency' = 0
    /\ exc_escaped' = FALSE
    /\ UNCHANGED <<cfg, last_success_time, last_result, stop_requested,
                   last_best_server, thread, nthreads>>
    /\ unseen' = Wrote(unseen, "running")
    /\ UNCHANGED <<pvars, qvars, hvars, mvars>>

Next ==
    \/ Start
    \/ Stop
    \/ \E checked \in BOOLEAN : ToggleAutoSync(checked)
    \/ \E d \in DialogInputs : Accept(d[1], d[2], d[3], d[4])
    \/ \E t \in Threads : LoopEnter(t)
    \/ \E t \in Threads : LoopHead(t)
    \/ \E t \in Threads : ChoosePreferred(t)
    \/ \E t \in Threads : ChooseHost(t)
    \/ \E t \in Threads : ChooseReturn(t)
    \/ \E t \in Threads : ProbeRaise(t)
    \/ \E t \in Threads : LoopPublish(t)
    \/ \E t \in Threads : LoopVerify(t)
    \/ \E t \in Threads : LoopRecheck(t)
    \/ \E t \in Threads : LoopExcept(t)
    \/ \E t \in Threads : LoopNotify(t)
    \/ \E t \in Threads : LoopSleep(t)
    \/ \E t \in Threads : LoopFinally(t)

Spec == Init /\ [][Next]_vars

\* ---- the loop thread under a fair scheduler ----
\* one step of _run_loop in thread t; every probe, sleep and shell-out returns
RunLoop(t) ==
    \/ LoopEnter(t)
    \/ LoopHead(t)
    \/ ChoosePreferred(t)
    \/ ChooseHost(t)
    \/ ChooseReturn(t)
    \/ ProbeRaise(t)
    \/ LoopPublish(t)
    \/ LoopVerify(t)
    \/ LoopRecheck(t)
    \/ LoopExcept(t)
    \/ LoopNotify(t)
    \/ LoopSleep(t)
    \/ LoopFinally(t)

\* start() and stop() calls around the loop threads, the settings left alone
NextLive ==
    \/ Start
    \/ Stop
    \/ \E t \in Threads : RunLoop(t)

\* a started thread is scheduled again and again (threading.Thread, daemon)
SpecLive ==
    /\ Init
    /\ [][NextLive]_vars
    /\ \A t \in Threads : WF_vars(RunLoop(t))

\* ------------------------------------------------------------------------
\* query_ntp_once and query_ntp over what the probes meet
\* ------------------------------------------------------------------------
\* Instants and durations are counted in 1/UnitsPerMs ms, like rtt_ms and
\* offset_ms, so that rtt * 1000.0 and offset * 1000.0 keep the count. The
\* instants drawn below are multiples of four units: the halves taken by the
\* offset formula and by the median of two are then whole counts.
UnitsPerSec == 1000 * UnitsPerMs

\* struct.pack_into("!I", ...) takes 0 .. 2^32 - 1; the model's word is narrower
SecLimit == 2 ^ SecBits

\* NTP_DELTA in seconds, in the proportion of the source's 2208988800 to 2^32
NtpDelta == 5

system_to_ntp_time(timestamp) == timestamp + NtpDelta * UnitsPerSec

ntp_to_system_time(timestamp) == timestamp - NtpDelta * UnitsPerSec

\* seconds = int(ts); the fraction is what is left, in units
timestamp_to_parts(ts) ==
    <<IntTrunc(ts, UnitsPerSec), ts - IntTrunc(ts, UnitsPerSec) * UnitsPerSec>>

parts_to_timestamp(seconds, fraction) == seconds * UnitsPerSec + fraction

\* A 48-byte reply, by what a server puts into its timestamp fields: the
\* originate timestamp at byte 24, the receive timestamp at byte 32 and the
\* transmit timestamp at byte 40, each a seconds word and a fraction word
Datagram(originate, receive, transmit) ==
    [len |-> 48, originate |-> originate, receive |-> receive, transmit |-> transmit]

ShortDatagram == [len |-> 12, originate |-> <<0, 0>>, receive |-> <<0, 0>>,
                  transmit |-> <<0, 0>>]

\* struct.unpack("!B B b b 11I", data): the four bytes of the header, then the
\* eleven words from byte 4 on (root delay, root dispersion, reference id,
\* reference, originate, receive and transmit timestamps)
unpack(data) ==
    <<0, 0, 0, 0,
      0, 0, 0,
      0, 0,
      data.originate[1], data.originate[2],
      data.receive[1], data.receive[2],
      data.transmit[1], data.transmit[2]>>

\* unpacked[k] of Python, which counts from 0
At(unpacked, k) == unpacked[k + 1]

\* Variant: the computed rtt is returned as it is
FloorZero_Not(x) == x

\* line 93: max(0.0, rtt * 1000.0)
FloorZero(x) == Max(0, x)

\* Variant: a successful result says so in its error field
Success_Tagged(server, rtt_ms, offset_ms) ==
    NtpResult(server, rtt_ms, offset_ms, TRUE, "OK")

\* NtpResult(server, rtt_ms=..., offset_ms=..., success=True): error keeps its
\* default
Success(server, rtt_ms, offset_ms) ==
    NtpResult(server, rtt_ms, offset_ms, TRUE, NoError)

\* What a call of query_ntp_once ends with: a returned result, or an exception
Returns(res) == [raises |-> "", value |-> res]

Raises(exc) == [raises |-> exc, value |-> None]

\* lines 84-90: the round trip by the high-resolution counter less the server's
\* processing time, and the wall-clock value taken when that is negative
HiResRtt(env, t2, t3) == env.local_rtt - (t3 - t2)

WallRtt(env, t2, t3) == (env.t4_sys - env.t1_sys) - (t3 - t2)

\* lines 71-81: the two server timestamps as the code takes them from the reply
ParsedT2(data) ==
    ntp_to_system_time(parts_to_timestamp(At(unpack(data), 9), At(unpack(data), 10)))

ParsedT3(data) ==
    ntp_to_system_time(parts_to_timestamp(At(unpack(data), 11), At(unpack(data), 12)))

\* query_ntp_once(server, timeout_ms) in the environment env: packing the
\* request, creating the socket and setting its timeout come before the try
query_ntp_once(server, timeout_ms, env) ==
    LET t1_parts == timestamp_to_parts(system_to_ntp_time(env.t1_sys))
    IN  IF t1_parts[1] < 0 \/ t1_parts[1] >= SecLimit
        THEN Raises("struct.error")
        ELSE IF ~env.socket_ok
        THEN Raises("OSError")
        ELSE IF timeout_ms < 0
        THEN Raises("ValueError")
        ELSE IF env.net # "reply"
        THEN Returns(NtpResult(server, 0, 0, FALSE, env.err))
        ELSE IF env.data.len < 48
        THEN Returns(NtpResult(server, 0, 0, FALSE, "Short NTP response"))
        ELSE LET t2 == ParsedT2(env.data)
                 t3 == ParsedT3(env.data)
                 rtt == IF HiResRtt(env, t2, t3) < 0 THEN WallRtt(env, t2, t3)
                        ELSE HiResRtt(env, t2, t3)
                 offset == ((t2 - env.t1_sys) + (t3 - env.t4_sys)) \div 2
             IN  Returns(Success(server, FloorZero(rtt), offset))

\* ---- what a probe may meet ----
ClockBase == 2 * UnitsPerSec

\* a reply to a request sent at t1: the counter measured local_rtt and the wall
\* clock read t1 + wall on arrival; the server stamped the request at recv_at
\* and the reply at xmit_at on its own clock, and echoed the request's
\* transmit timestamp as the originate timestamp
ReplyEnv(t1, local_rtt, wall, recv_at, xmit_at) ==
    [socket_ok |-> TRUE, t1_sys |-> t1, net |-> "reply", err |-> "",
     data |-> Datagram(timestamp_to_parts(system_to_ntp_time(t1)),
                       timestamp_to_parts(system_to_ntp_time(recv_at)),
                       timestamp_to_parts(system_to_ntp_time(xmit_at))),
     t4_sys |-> t1 + wall, local_rtt |-> local_rtt]

\* an exchange that ends in the except clause with the exception's text, or
\* with a datagram shorter than 48 bytes
FailEnv(net, err) ==
    [socket_ok |-> TRUE, t1_sys |-> ClockBase, net |-> net, err |-> err,
     data |-> ShortDatagram, t4_sys |-> ClockBase, local_rtt |-> 0]

ProbeEnvs ==
    { \* the server's clock is 100 ms ahead, 40 ms round trip
      ReplyEnv(ClockBase, 40 * UnitsPerMs, 40 * UnitsPerMs,
               ClockBase + 120 * UnitsPerMs, ClockBase + 124 * UnitsPerMs),
      \* the server's clock is 12 ms behind
      ReplyEnv(ClockBase, 40 * UnitsPerMs, 40 * UnitsPerMs,
               ClockBase + 8 * UnitsPerMs, ClockBase + 12 * UnitsPerMs),
      \* the wall clock was stepped forward during the exchange
      ReplyEnv(ClockBase, 40 * UnitsPerMs, 80 * UnitsPerMs,
               ClockBase + 60 * UnitsPerMs, ClockBase + 64 * UnitsPerMs),
      ReplyEnv(ClockBase, 40 * UnitsPerMs, 60 * UnitsPerMs,
               ClockBase + 20 * UnitsPerMs, ClockBase + 24 * UnitsPerMs),
      FailEnv("timeout", "timed out"),
      FailEnv("gaierror", "[Errno 11001] getaddrinfo failed"),
      FailEnv("sendto", ""),
      FailEnv("reply", ""),
      \* socket.socket() fails
      [FailEnv("timeout", "timed out") EXCEPT !.socket_ok = FALSE],
      \* the wall clock has passed the last second the seconds word can hold
      ReplyEnv((SecLimit - NtpDelta) * UnitsPerSec, 40 * UnitsPerMs, 40 * UnitsPerMs,
               (SecLimit - NtpDelta) * UnitsPerSec + 8 * UnitsPerMs,
               (SecLimit - NtpDelta) * UnitsPerSec + 12 * UnitsPerMs) }

TimeoutVals == {800, -1}

QueryHost == "a"

\* line 99: samples = max(1, int(samples))
Rounds(n) == Max(1, n)

InitQuery ==
    /\ q_timeout \in TimeoutVals
    /\ q_samples \in 0..MaxSamples
    /\ q_env \in [1..Rounds(q_samples) -> ProbeEnvs]
    /\ q_once = <<>>
    /\ q_res = None
    /\ qpc = "loop"
    /\ PingIdle
    /\ SchedIdle
    /\ HelperIdle
    /\ ManualIdle

\* lines 102-107: one call of query_ntp_once that returns
QueryOnce ==
    /\ qpc = "loop"
    /\ Len(q_once) < Len(q_env)
    /\ LET out == query_ntp_once(QueryHost, q_timeout, q_env[Len(q_once) + 1])
       IN  /\ out.raises = ""
           /\ q_once' = Append(q_once, out.value)
    /\ UNCHANGED <<q_timeout, q_samples, q_env, q_res, qpc>>
    /\ UNCHANGED <<pvars, svars, hvars, mvars>>

\* line 103: the call of query_ntp_once raises; query_ntp has no handler
QueryOnceRaise ==
    /\ qpc = "loop"
    /\ Len(q_once) < Len(q_env)
    /\ query_ntp_once(QueryHost, q_timeout, q_env[Len(q_once) + 1]).raises # ""
    /\ qpc' = "raised"
    /\ UNCHANGED <<q_timeout, q_samples, q_env, q_once, q_res>>
    /\ UNCHANGED <<pvars, svars, hvars, mvars>>

\* lines 108-113: the loop is over and the aggregate is returned
QueryReturn ==
    /\ qpc = "loop"
    /\ Len(q_once) = Len(q_env)
    /\ q_res' = query_ntp(QueryHost, q_once)
    /\ qpc' = "returned"
    /\ UNCHANGED <<q_timeout, q_samples, q_env, q_once>>
    /\ UNCHANGED <<pvars, svars, hvars, mvars>>

NextQuery ==
    \/ QueryOnce
    \/ QueryOnceRaise
    \/ QueryReturn

SpecQuery == InitQuery /\ [][NextQuery]_vars

\* ------------------------------------------------------------------------
\* A correction request: set_system_time_utc_via_helper (app/time_utils.py)
\* and the elevated helper process it asks for (elevated_time_setter.py)
\* ------------------------------------------------------------------------
InitHelper ==
    /\ h_env \in HelperEnvs
    /\ h_ret = NoReturn
    /\ h_spawned = 0
    /\ h_step = "none"
    /\ h_priv = "unset"
    /\ h_exit = NoExit
    /\ hpc = "call"
    /\ PingIdle
    /\ SchedIdle
    /\ QueryIdle
    /\ ManualIdle

\* time_utils.py lines 29-36: no helper file, no process
RequestNotFound ==
    /\ hpc = "call"
    /\ ~HelperFound(h_env)
    /\ h_ret' = set_system_time_utc_via_helper(h_env)
    /\ hpc' = "returned"
    /\ UNCHANGED <<h_env, h_spawned, h_step, h_priv, h_exit>>
    /\ UNCHANGED <<pvars, svars, qvars, mvars>>

\* time_utils.py lines 37-50: subprocess.run; powershell is a process unless
\* it could not be started, and the elevated helper is one when the
\* elevation was granted
RequestRun ==
    /\ hpc = "call"
    /\ HelperFound(h_env)
    /\ h_ret' = set_system_time_utc_via_helper(h_env)
    /\ h_spawned' = IF h_env.shell = "cannot_start" THEN 0
                    ELSE IF h_env.shell = "issued" THEN 2 ELSE 1
    /\ h_step' = IF h_env.shell = "issued" THEN "main" ELSE "none"
    /\ hpc' = "returned"
    /\ UNCHANGED <<h_env, h_priv, h_exit>>
    /\ UNCHANGED <<pvars, svars, qvars, mvars>>

\* elevated_time_setter.py lines 70-71: the target becomes a SYSTEMTIME; an
\* exception of utcfromtimestamp ends the process with status 1
HelperConvert ==
    /\ h_step = "main"
    /\ IF h_env.epoch_ok
       THEN h_step' = "priv" /\ UNCHANGED h_exit
       ELSE h_step' = "exited" /\ h_exit' = 1
    /\ UNCHANGED <<h_env, h_ret, h_spawned, h_priv, hpc>>
    /\ UNCHANGED <<pvars, svars, qvars, mvars>>

\* elevated_time_setter.py line 72: enable_set_time_privilege() is called and
\* its result dropped
HelperPrivilege ==
    /\ h_step = "priv"
    /\ h_priv' = IF enable_set_time_privilege(h_env) THEN "True" ELSE "False"
    /\ h_step' = "set"
    /\ UNCHANGED <<h_env, h_ret, h_spawned, h_exit, hpc>>
    /\ UNCHANGED <<pvars, svars, qvars, mvars>>

\* elevated_time_setter.py lines 73-74 and 81-84: SetSystemTime and the exit
HelperSet ==
    /\ h_step = "set"
    /\ h_exit' = IF h_env.set_ok THEN 0 ELSE 2
    /\ h_step' = "exited"
    /\ UNCHANGED <<h_env, h_ret, h_spawned, h_priv, hpc>>
    /\ UNCHANGED <<pvars, svars, qvars, mvars>>

NextHelper ==
    \/ RequestNotFound
    \/ RequestRun
    \/ HelperConvert
    \/ HelperPrivilege
    \/ HelperSet

SpecHelper == InitHelper /\ [][NextHelper]_vars

\* ------------------------------------------------------------------------
\* TrayApp.sync_now (app/main.py lines 667-687) beside the scheduler loop that
\* TrayApp starts at launch: the worker thread calls the manager's
\* _choose_server and _verify_and_apply_time on the same SyncState and Settings
\* ------------------------------------------------------------------------
\* time.sleep(2.0) of line 679, in half seconds
SleepManual == 4

\* the query_ntp_once outcomes behind one query_ntp of the worker
ManualRounds ==
    { <<OnceFail("timed out"), OnceFail("timed out"), OnceFail("timed out")>>,
      <<OnceOk(40, 600), OnceOk(40, 600), OnceOk(40, 600)>>,
      <<OnceOk(80, -1002), OnceOk(40, -1002), OnceFail("timed out")>> }

AllFailed == NtpResult("(none)", 0, 0, FALSE, "All servers failed")

\* config.json holds auto sync enabled; TrayApp.__init__ has called
\* sync_manager.start()
InitManual ==
    /\ PingIdle
    /\ QueryIdle
    /\ HelperIdle
    /\ ManualIdle
    /\ cfg \in {s \in LoadedSettings : s.auto_sync_enabled}
    /\ last_success_time = 0
    /\ last_result = None
    /\ running = FALSE
    /\ stop_requested = FALSE
    /\ last_best_server = ""
    /\ thread = 1
    /\ nthreads = 1
    /\ loop = [t \in Threads |-> IF t = 1 THEN [Unborn EXCEPT !.pc = "started"]
                                ELSE Unborn]
    /\ tick = NoTick
    /\ wt = NoWait
    /\ stop_latency = 0
    /\ exc_escaped = FALSE
    /\ unseen = AllSeen

\* what no step of the worker touches
SnFrame ==
    /\ UNCHANGED <<cfg, running, stop_requested, thread, nthreads, loop, tick,
                   wt, stop_latency, exc_escaped>>
    /\ UNCHANGED <<pvars, qvars, hvars>>

\* lines 667-687: the menu entry starts a worker thread; the one before it
\* has ended
SyncNow ==
    /\ sn.pc \in {"idle", "done"}
    /\ sn' = [NoSn EXCEPT !.pc = "choose"]
    /\ UNCHANGED <<last_result, last_success_time, last_best_server, unseen>>
    /\ SnFrame

\* lines 669 and 56-61: the entry of _choose_server up to its first probe
SnChoose ==
    /\ sn.pc = "choose"
    /\ sn' = IF cfg.ntp_servers = <<>>
             THEN [sn EXCEPT !.pc = "got", !.res = None]
             ELSE IF ~cfg.auto_select_server /\ cfg.preferred_server # ""
             THEN [sn EXCEPT !.pc = "ch_pref", !.servers = cfg.ntp_servers,
                             !.host = cfg.preferred_server]
             ELSE [sn EXCEPT !.pc = "ch_host", !.hi = 1,
                             !.servers = cfg.ntp_servers]
    /\ UNCHANGED <<last_result, last_success_time, last_best_server, unseen>>
    /\ SnFrame

\* lines 62-64: the preferred server's probe
SnPreferred ==
    /\ sn.pc = "ch_pref"
    /\ \E outs \in ManualRounds :
         LET res == query_ntp(sn.host, outs)
         IN  sn' = IF Usable(res)
                   THEN [sn EXCEPT !.pc = "got", !.res = res, !.host = ""]
                   ELSE [sn EXCEPT !.pc = "ch_host", !.hi = 1, !.host = ""]
    /\ UNCHANGED <<last_result, last_success_time, last_best_server, unseen>>
    /\ SnFrame

\* lines 67-71: one iteration of for host in servers
SnHost ==
    /\ sn.pc = "ch_host"
    /\ sn.hi <= Len(sn.servers)
    /\ \E outs \in ManualRounds :
         LET res == query_ntp(sn.servers[sn.hi], outs)
         IN  sn' = [sn EXCEPT
                      !.hi = @ + 1,
                      !.best = IF Usable(res) /\ Better(res, @) THEN res ELSE @]
    /\ UNCHANGED <<last_result, last_success_time, last_best_server, unseen>>
    /\ SnFrame

\* lines 72-80: the announcement and the return of _choose_server
SnReturn ==
    /\ sn.pc = "ch_host"
    /\ sn.hi > Len(sn.servers)
    /\ LET announce == ShouldAnnounce(sn.best, cfg.auto_select_server, last_best_server)
       IN  /\ last_best_server' = IF announce THEN sn.best.server
                                  ELSE last_best_server
           /\ unseen' = IF announce THEN Announced(unseen) ELSE unseen
    /\ sn' = [sn EXCEPT !.pc = "got", !.res = sn.best, !.best = None,
                        !.servers = <<>>, !.hi = 0]
    /\ UNCHANGED <<last_result, last_success_time>>
    /\ SnFrame

\* query_ntp raises inside _choose_server
SnProbeRaise ==
    /\ \/ sn.pc = "ch_pref"
       \/ sn.pc = "ch_host" /\ sn.hi <= Len(sn.servers)
    /\ sn' = [NoSn EXCEPT !.pc = "except", !.exc = "OSError"]
    /\ UNCHANGED <<last_result, last_success_time, last_best_server, unseen>>
    /\ SnFrame

\* lines 670-676: last_result is assigned and _on_status_changed called; with
\* no server the worker returns; an exception of the observer is caught at
\* line 683
SnPublish ==
    /\ sn.pc = "got"
    /\ last_result' = IF sn.res = None THEN AllFailed ELSE sn.res
    /\ unseen' = Observed(unseen)
    /\ \/ sn' = IF sn.res = None THEN [NoSn EXCEPT !.pc = "done"]
                 ELSE [sn EXCEPT !.pc = "verify"]
       \/ sn' = [NoSn EXCEPT !.pc = "except", !.exc = "observer"]
    /\ UNCHANGED <<last_success_time, last_best_server>>
    /\ SnFrame

\* lines 677-679 and 82-90: _verify_and_apply_time; a request that was
\* accepted is followed by time.sleep(2.0)
SnVerify ==
    /\ sn.pc = "verify"
    /\ LET threshold == cfg.drift_threshold_ms * UnitsPerMs
           drift == sn.res.offset_ms
       IN  IF Within(drift, threshold)
           THEN sn' = [sn EXCEPT !.pc = "stamp"]
           ELSE \E now \in NowVals, ok \in {r.ok : r \in HelperReturns} :
                  LET req == [target_epoch_ms |-> TargetEpochMs(now, drift),
                              now |-> now, drift |-> drift, ok |-> ok]
                  IN  sn' = IF ok
                            THEN [sn EXCEPT !.pc = "sleep", !.slp = SleepManual,
                                            !.reqs = Append(@, req)]
                            ELSE [sn EXCEPT !.pc = "stamp",
                                            !.reqs = Append(@, req)]
    /\ UNCHANGED <<last_result, last_success_time, last_best_server, unseen>>
    /\ SnFrame

\* half a second of the worker's time.sleep(2.0) passes
SnSleep ==
    /\ sn.pc = "sleep"
    /\ sn' = IF sn.slp > 1 THEN [sn EXCEPT !.slp = @ - 1]
             ELSE [sn EXCEPT !.pc = "stamp", !.slp = 0]
    /\ UNCHANGED <<last_result, last_success_time, last_best_server, unseen>>
    /\ SnFrame

\* lines 680-682: last_success_time is assigned, _on_status_changed and
\* _notify are called, the worker ends
SnStamp ==
    /\ sn.pc = "stamp"
    /\ \E now \in NowVals : last_success_time' = now
    /\ unseen' = Observed(unseen)
    /\ \/ sn' = [NoSn EXCEPT !.pc = "done", !.reqs = sn.reqs]
       \/ sn' = [NoSn EXCEPT !.pc = "except", !.exc = "observer", !.reqs = sn.reqs]
    /\ UNCHANGED <<last_result, last_best_server>>
    /\ SnFrame

\* lines 683-686: except Exception as e; the worker ends
SnExcept ==
    /\ sn.pc = "except"
    /\ last_result' = NtpResult("(error)", 0, 0, FALSE, sn.exc)
    /\ unseen' = Observed(unseen)
    /\ sn' = [NoSn EXCEPT !.pc = "done", !.reqs = sn.reqs]
    /\ UNCHANGED <<last_success_time, last_best_server>>
    /\ SnFrame

NextManual ==
    \/ SyncNow
    \/ SnChoose
    \/ SnPreferred
    \/ SnHost
    \/ SnReturn
    \/ SnProbeRaise
    \/ SnPublish
    \/ SnVerify
    \/ SnSleep
    \/ SnStamp
    \/ SnExcept
    \/ \E t \in Threads : LoopEnter(t)
    \/ \E t \in Threads : LoopHead(t)
    \/ \E t \in Threads : ChoosePreferred(t)
    \/ \E t \in Threads : ChooseHost(t)
    \/ \E t \in Threads : ChooseReturn(t)
    \/ \E t \in Threads : ProbeRaise(t)
    \/ \E t \in Threads : LoopPublish(t)
    \/ \E t \in Threads : LoopVerify(t)
    \/ \E t \in Threads : LoopRecheck(t)
    \/ \E t \in Threads : LoopExcept(t)
    \/ \E t \in Threads : LoopNotify(t)
    \/ \E t \in Threads : LoopSleep(t)
    \/ \E t \in Threads : LoopFinally(t)

SpecManual == InitManual /\ [][NextManual]_vars

\* ------------------------------------------------------------------------
\* The three parts side by side: a run is a query_ntp call, a ping_servers
\* call or the scheduler. The name of a server plays no part in the rtt_ms or
\* the error of its result: the ping_servers calls are those over one name.
\* ------------------------------------------------------------------------
InitAll ==
    \/ InitQuery
    \/ InitPing /\ \A i \in 1..Len(servers) : servers[i] = QueryHost
    \/ Init

NextAll ==
    \/ NextQuery
    \/ NextPing
    \/ ppc = "idle" /\ qpc = "idle" /\ Next

SpecAll == InitAll /\ [][NextAll]_vars

\* ------------------------------------------------------------------------
\* Properties
\* ------------------------------------------------------------------------

\* C1: for every server list (empty, with duplicates), every max_workers >= 1
\* and every completion order, ping_servers returns a list as long as its
\* input whose i-th element carries servers[i].
C1_OrderPreserved ==
    ppc = "returned" =>
        /\ Len(ret) = Len(servers)
        /\ \A i \in 1..Len(servers) : ret[i].server = servers[i]

\* a call over a list with a duplicate name has returned; the last worker left
\* the gate first, with a success, and the first one ended without writing its
\* slot
C1_Witness ==
    /\ ppc = "returned"
    /\ Len(servers) >= 2
    /\ servers[1] = servers[2]
    /\ first_done = Len(servers)
    /\ ret[Len(servers)].success
    /\ wpc[1] = "raised"

\* C2: at any moment of a ping_servers call, a progress callback in progress
\* included, at most max_workers workers are inside the admission gate.
C2_GateBound == ppc # "idle" => Cardinality(InFlight) <= max_workers

\* the gate is full, a worker waits for a permit, and a progress callback runs
C2_Witness ==
    /\ Cardinality(InFlight) = max_workers
    /\ \E i \in 1..Len(servers) : wpc[i] = "waitsem"
    /\ lock # 0

Threshold == cfg.drift_threshold_ms * UnitsPerMs

\* C3 as stated: in every tick that selected a sample with offset o, no
\* request is issued when |o| < T, and when |o| >= T exactly one is issued whose
\* target_epoch_ms equals the current epoch milliseconds plus o.
C3_AsStated ==
    \A t \in Threads :
        loop[t].pc = "notify" /\ tick.kind = "sel" =>
            LET o == tick.selected[1].offset_ms
            IN  /\ Abs(o) < Threshold => tick.reqs = <<>>
                /\ Abs(o) >= Threshold =>
                     /\ Len(tick.reqs) = 1
                     /\ tick.reqs[1].target_epoch_ms * UnitsPerMs = tick.reqs[1].now + o

\* C3 (amended): in every tick in which the drift comparison is reached for the
\* selected sample with offset o: no request is issued when |o| < T; when
\* |o| >= T exactly one is issued, and its target_epoch_ms is the current epoch
\* time in milliseconds plus o with the fraction of a millisecond cut off. A
\* tick that never reaches the comparison issues no request.
C3_DriftDecision ==
    LET o == tick.selected[1].offset_ms
    IN  /\ ~tick.compared => tick.reqs = <<>>
        /\ tick.compared /\ Abs(o) < Threshold => tick.reqs = <<>>
        /\ tick.compared /\ Abs(o) >= Threshold =>
             /\ Len(tick.reqs) = 1
             /\ LET r == tick.reqs[1]
                IN  /\ r.target_epoch_ms * UnitsPerMs <= r.now + o
                    /\ r.now + o < (r.target_epoch_ms + 1) * UnitsPerMs

\* a tick compared a negative offset beyond the threshold, whose sum with the
\* clock has a fraction of a millisecond, and has issued its request
C3_Witness ==
    /\ tick.compared
    /\ Len(tick.reqs) = 1
    /\ tick.selected[1].offset_ms < 0
    /\ (tick.reqs[1].now + tick.reqs[1].drift) % UnitsPerMs # 0
    /\ \E t \in Threads : loop[t].pc = "recheck"

\* C4: whatever start() and stop() calls were made, at most one loop thread is
\* alive; a start() while one is alive creates no second one.
C4_SingleLoop == Cardinality(Alive) <= 1

\* the second thread runs its loop after the first one was stopped and ended,
\* and stop was requested again
C4_Witness ==
    /\ nthreads = 2
    /\ loop[1].pc = "dead"
    /\ loop[2].pc = "sleep"
    /\ stop_requested

\* C5 as stated: after stop() the loop thread ends within one polling increment
\* of 0.5 s (plus the probe in flight), whatever phase it is in.
C5_StopLatency == stop_latency <= SleepPoll

\* C6 as stated: every exception of a tick is caught and recorded in
\* last_result, and no exception ever ends the loop thread.
C6_NeverFatal ==
    /\ ~exc_escaped
    /\ \A t \in Threads :
         loop[t].pc = "notify" /\ tick.raised =>
             last_result.server = "(error)" /\ ~last_result.success

Successes(round) == {i \in 1..Len(round) : round[i].success}

\* C7: in manual mode, when the preferred server's probe failed, _choose_server
\* has probed every server of the configured list and returns the successful
\* sample of lowest rtt_ms among them, or nothing when none succeeded.
C7_ManualFallback ==
    \A t \in Threads :
        loop[t].pc = "got" /\ tick.pref_failed =>
            LET sel == loop[t].selected
                succ == Successes(tick.round)
            IN  /\ Len(tick.round) = Len(loop[t].servers)
                /\ \A i \in 1..Len(tick.round) :
                       tick.round[i].server = loop[t].servers[i]
                /\ succ = {} => sel = None
                /\ succ # {} =>
                     \E i \in succ :
                         /\ sel = tick.round[i]
                         /\ \A j \in succ : tick.round[i].rtt_ms <= tick.round[j].rtt_ms

\* the preferred probe failed and the selection returned the second server of
\* the list, the first having succeeded with a higher rtt
C7_Witness ==
    \E t \in Threads :
        /\ loop[t].pc = "got"
        /\ tick.via = "manual"
        /\ tick.pref_failed
        /\ Len(tick.round) = 2
        /\ tick.round[1].success
        /\ loop[t].selected = tick.round[2]
        /\ tick.round[2].rtt_ms < tick.round[1].rtt_ms

\* C8 as stated: a tick in which no server succeeded publishes the "(none)"
\* sample to the status observer, waits and goes on to the next tick; the
\* loop thread does not end in it.
C8_NoServerTick ==
    \A t \in Threads :
        tick.kind = "none" /\ tick.via # "empty" =>
            /\ ~exc_escaped
            /\ loop[t].pc = "sleep" =>
                   last_result = NoServer /\ tick.notified = <<NoServer>>

\* C9 as stated: the wait between a tick that probed and the next tick lasts
\* max(15, check_interval_sec) seconds and is slept in steps of at most 0.5 s.
C9_IntervalWait ==
    \A t \in Threads :
        /\ loop[t].pc = "head"
        /\ wt.kind = "tick" \/ (wt.kind = "none" /\ tick.via # "empty")
        /\ ~stop_requested
        =>
            /\ wt.waited = wt.due
            /\ wt.max_step <= SleepPoll

\* C10: on the automatic path _choose_server returns a successful sample whose
\* rtt_ms no other successful sample of the round undercuts, the first of the
\* configured list among those of equal lowest rtt_ms, and nothing exactly
\* when no server of the list succeeded.
C10_LowestRtt ==
    \A t \in Threads :
        loop[t].pc = "got" /\ tick.via \in {"auto", "manual", "empty"} =>
            LET sel == loop[t].selected
                succ == Successes(tick.round)
            IN  /\ sel = None <=> succ = {}
                /\ succ # {} =>
                     \E i \in succ :
                         /\ sel = tick.round[i]
                         /\ sel.success
                         /\ \A j \in succ :
                              /\ tick.round[i].rtt_ms <= tick.round[j].rtt_ms
                              /\ tick.round[j].rtt_ms = tick.round[i].rtt_ms => i <= j

\* both servers succeeded with the same rtt_ms and the first one was returned
C10_Witness ==
    \E t \in Threads :
        /\ loop[t].pc = "got"
        /\ tick.via = "auto"
        /\ Len(tick.round) = 2
        /\ tick.round[1].success /\ tick.round[2].success
        /\ tick.round[1].rtt_ms = tick.round[2].rtt_ms
        /\ loop[t].selected = tick.round[1]
        /\ tick.round[1] # tick.round[2]

\* C11: when _choose_server has returned from its loop over the list, it has
\* called on_best_server_changed(server, rtt_ms) of the winner exactly when a
\* winner exists, auto_select_server is true and the winner's server differs
\* from the last_best_server found; last_best_server is the winner's server
\* after a call and is unchanged without one, so that a following round with
\* the same winner makes no call. A return without the loop makes no call.
C11_BestChanged ==
    \A t \in Threads :
        loop[t].pc = "got" =>
            LET sel == loop[t].selected
                due == /\ tick.via \in {"auto", "manual"}
                       /\ sel # None
                       /\ tick.auto_sel
                       /\ sel.server # tick.prev_best
            IN  /\ due => /\ tick.emit = << <<sel.server, sel.rtt_ms>> >>
                          /\ last_best_server = sel.server
                /\ ~due => /\ tick.emit = <<>>
                           /\ tick.via \in {"auto", "manual"} =>
                                  last_best_server = tick.prev_best

\* a round in automatic mode was won by the server that an earlier round had
\* announced, and no call was made
C11_Witness ==
    \E t \in Threads :
        /\ loop[t].pc = "got"
        /\ tick.via = "auto"
        /\ loop[t].selected # None
        /\ tick.auto_sel
        /\ loop[t].selected.server = tick.prev_best
        /\ tick.emit = <<>>

\* C12: in every tick in which a sample is selected, the sample has been
\* written to last_result and the status observer has been called with it in
\* place before the drift comparison is made and before a correction request
\* is issued.
C12_PublishFirst ==
    /\ \A t \in Threads :
           loop[t].pc = "verify" =>
               /\ ~tick.compared /\ tick.reqs = <<>>
               /\ last_result = loop[t].selected
               /\ tick.notified = <<loop[t].selected>>
    /\ tick.compared \/ tick.reqs # <<>> =>
           /\ tick.kind = "sel"
           /\ tick.notified = tick.selected
           /\ Len(tick.notified) = 1

\* a tick has issued its correction request and waits for the re-probe; the
\* observer had been called with the selected sample
C12_Witness ==
    \E t \in Threads :
        /\ loop[t].pc = "sleep" /\ loop[t].after = "recheck"
        /\ Len(tick.reqs) = 1
        /\ tick.notified = <<loop[t].selected>>
        /\ last_result = loop[t].selected

\* C13 as stated: at the end of a tick that issued a correction request,
\* last_success_time has been set in that tick and last_result still is the
\* selected sample, whatever became of the re-probe.
C13_AfterCorrection ==
    \A t \in Threads :
        loop[t].pc = "notify" /\ tick.reqs # <<>> =>
            /\ tick.stamped
            /\ last_result = tick.selected[1]

\* ---- the statistical median, by rank ----
CountBelow(d, x) == Cardinality({i \in 1..Len(d) : d[i] < x})

CountUpTo(d, x) == Cardinality({i \in 1..Len(d) : d[i] <= x})

\* the k-th smallest element of d
Kth(d, k) ==
    CHOOSE x \in {d[i] : i \in 1..Len(d)} : CountBelow(d, x) < k /\ k <= CountUpTo(d, x)

IsMedian(m, d) ==
    IF Len(d) % 2 = 1 THEN m = Kth(d, (Len(d) + 1) \div 2)
    ELSE 2 * m = Kth(d, Len(d) \div 2) + Kth(d, Len(d) \div 2 + 1)

OnceSuccesses == SelectSeq(q_once, LAMBDA r : r.success)

\* C14: when query_ntp returns after N >= 1 probes of which at least one
\* succeeded, its result is a success whose rtt_ms is the statistical median
\* of the successful probes' rtt_ms and whose offset_ms is that of their
\* offset_ms, each taken on its own; failed probes enter neither.
C14_Median ==
    qpc = "returned" /\ OnceSuccesses # <<>> =>
        /\ q_res.success
        /\ q_res.server = QueryHost
        /\ IsMedian(q_res.rtt_ms,
                    [i \in 1..Len(OnceSuccesses) |-> OnceSuccesses[i].rtt_ms])
        /\ IsMedian(q_res.offset_ms,
                    [i \in 1..Len(OnceSuccesses) |-> OnceSuccesses[i].offset_ms])

\* three probes succeeded and the two medians come from different probes
C14_Witness ==
    /\ qpc = "returned"
    /\ Len(OnceSuccesses) = 3
    /\ \E i, j \in 1..3 :
          /\ i # j
          /\ q_res.rtt_ms = q_once[i].rtt_ms /\ q_res.offset_ms # q_once[i].offset_ms
          /\ q_res.offset_ms = q_once[j].offset_ms /\ q_res.rtt_ms # q_once[j].rtt_ms

\* C15: query_ntp returns a failure exactly when every probe failed, and the
\* failure carries the error of the last probe, or "NTP failed" when that
\* error is empty.
C15_FailureIff ==
    qpc = "returned" =>
        /\ ~q_res.success <=> OnceSuccesses = <<>>
        /\ ~q_res.success =>
              LET e == q_once[Len(q_once)].error
              IN  /\ q_res.error = IF e \in {"", NoError} THEN "NTP failed" ELSE e
                  /\ q_res.rtt_ms = 0 /\ q_res.offset_ms = 0

\* three probes failed with different errors and the result carries the last
C15_Witness ==
    /\ qpc = "returned"
    /\ Len(q_once) = 3
    /\ ~q_res.success
    /\ q_once[1].error # q_once[3].error
    /\ q_once[2].error = ""
    /\ q_res.error = q_once[3].error

\* every NtpResult the program holds
Produced ==
    {q_once[i] : i \in 1..Len(q_once)}
    \cup {q_res, last_result}
    \cup {results[i] : i \in 1..Len(results)}
    \cup {ret[i] : i \in 1..Len(ret)}
    \cup {tick.round[i] : i \in 1..Len(tick.round)}
    \cup {loop[t].selected : t \in Threads}
    \cup {loop[t].best : t \in Threads}

\* C16: every result of query_ntp_once, query_ntp and ping_servers, and every
\* value of last_result, has rtt_ms >= 0.
C16_RttNonNegative == \A r \in Produced \ {None} : r.rtt_ms >= 0

\* a probe got a reply for which the round trip by the counter less the
\* server's processing time is negative and the wall-clock value too, and its
\* result is a success with rtt_ms = 0
C16_Witness ==
    \E k \in 1..Len(q_once) :
        /\ q_env[k].net = "reply" /\ q_env[k].data.len = 48
        /\ HiResRtt(q_env[k], ParsedT2(q_env[k].data), ParsedT3(q_env[k].data)) < 0
        /\ WallRtt(q_env[k], ParsedT2(q_env[k].data), ParsedT3(q_env[k].data)) < 0
        /\ q_once[k].success
        /\ q_once[k].rtt_ms = 0

\* C17: every result with success = true has no error; an error is carried
\* only by results with success = false.
C17_SuccessNoError ==
    \A r \in Produced \ {None} :
        /\ r.success => r.error = NoError
        /\ r.error # NoError => ~r.success

\* query_ntp has returned the success aggregated from a successful and a
\* failed probe
C17_Witness ==
    /\ qpc = "returned"
    /\ q_res.success /\ q_res.error = NoError
    /\ \E i, j \in 1..Len(q_once) :
          /\ q_once[i].success /\ q_once[i].error = NoError
          /\ ~q_once[j].success /\ q_once[j].error # NoError

\* C18 as stated: query_ntp_once never raises, and every failure of the
\* exchange gives a result with success = false and an error.
C18_NeverRaises ==
    /\ qpc # "raised"
    /\ \A k \in 1..Len(q_once) :
          q_env[k].net # "reply" \/ q_env[k].data.len < 48 =>
              ~q_once[k].success /\ q_once[k].error # NoError

\* C19 as stated: for a reply of 48 bytes with R in its receive timestamp and X
\* in its transmit timestamp, offset_ms = ((t2 - t1) + (t3 - t4)) / 2 with
\* t2 = R - NTP_DELTA and t3 = X - NTP_DELTA.
C19_OffsetFormula ==
    \A k \in 1..Len(q_once) :
        q_env[k].net = "reply" /\ q_env[k].data.len = 48 =>
            LET d == q_env[k].data
                t2 == ntp_to_system_time(parts_to_timestamp(d.receive[1], d.receive[2]))
                t3 == ntp_to_system_time(parts_to_timestamp(d.transmit[1], d.transmit[2]))
            IN  2 * q_once[k].offset_ms = (t2 - q_env[k].t1_sys) + (t3 - q_env[k].t4_sys)

\* C20: in ping_servers a server whose query_ntp succeeded gets that result
\* and no ICMP ping; one whose query_ntp failed and whose ICMP fallback gave a
\* latency gets success = false, error = "ICMP fallback", that latency as
\* rtt_ms and offset_ms = 0; one for which both failed gets success = false,
\* rtt_ms = 0 and the error of query_ntp.
C20_IcmpFallback ==
    \A i \in 1..Len(servers) :
        wpc[i] \in {"waitlock", "incb", "done"} =>
            LET r == results[i]
            IN  \/ /\ ntp_err[i] = NoError
                   /\ icmp_rtt[i] = NotCalled
                   /\ r.success
                   /\ \E outs \in PingRounds :
                         r = query_ntp(servers[i], SubSeq(outs, 1, samples))
                \/ /\ ntp_err[i] # NoError
                   /\ icmp_rtt[i] \notin {NotCalled, IcmpNone}
                   /\ r = [server |-> servers[i], rtt_ms |-> icmp_rtt[i],
                           offset_ms |-> 0, success |-> FALSE,
                           error |-> "ICMP fallback"]
                \/ /\ ntp_err[i] # NoError
                   /\ icmp_rtt[i] = IcmpNone
                   /\ r = [server |-> servers[i], rtt_ms |-> 0, offset_ms |-> 0,
                           success |-> FALSE, error |-> ntp_err[i]]

\* a call over three servers has returned one result of each kind
C20_Witness ==
    /\ ppc = "returned"
    /\ \E i, j, k \in 1..Len(servers) :
          /\ ret[i].success /\ icmp_rtt[i] = NotCalled
          /\ ret[j].error = "ICMP fallback" /\ ret[j].rtt_ms = icmp_rtt[j]
          /\ icmp_rtt[k] = IcmpNone /\ ret[k].error = "NTP failed"

\* C21 as stated: in a ping_servers call with a progress callback the callback
\* is called with done = 1, 2, ... in this order, never by two workers at
\* once, and n times by the time the call returns.
C21_ProgressCalls ==
    /\ Cardinality({i \in 1..Len(servers) : wpc[i] = "incb"}) <= 1
    /\ \A k \in 1..Len(cb_log) : cb_log[k] = k
    /\ ppc = "returned" /\ has_cb => Len(cb_log) = Len(servers)

\* C22: a result slot changes only in a step of the worker of its own index,
\* which writes it once, from its unwritten state, on leaving the gate; no
\* other worker moves and no other slot changes in that step.
C22_OwnSlot ==
    [][\A j \in 1..Len(results) :
          results'[j] # results[j] =>
              /\ results[j] = None
              /\ wpc[j] \in {"gate", "icmp"}
              /\ wpc'[j] = "waitlock"
              /\ \A k \in (1..Len(results)) \ {j} :
                    wpc'[k] = wpc[k] /\ results'[k] = results[k]]_vars

\* a later worker has written its slot while an earlier one is still inside
\* the gate with its slot unwritten
C22_Witness ==
    \E i, j \in 1..Len(servers) :
        /\ i < j
        /\ results[j] # None /\ results[j].server = servers[j]
        /\ results[i] = None /\ wpc[i] \in {"gate", "icmp"}

\* C23: when every worker has ended ping_servers can return, and in the
\* returned list the element of a worker that ended without writing its slot
\* is the failure NtpResult(servers[i], 0, 0, False, "Unknown").
C23_UnknownFill ==
    /\ ppc = "spawn" /\ pidx > Len(servers)
          /\ (\A i \in 1..Len(servers) : wpc[i] \in {"done", "raised"})
       => ENABLED PingReturn
    /\ ppc = "returned" =>
          \A i \in 1..Len(servers) :
              results[i] = None =>
                  ret[i] = [server |-> servers[i], rtt_ms |-> 0, offset_ms |-> 0,
                            success |-> FALSE, error |-> "Unknown"]

\* a call has returned in which the second worker raised and another one
\* delivered a success
C23_Witness ==
    /\ ppc = "returned"
    /\ Len(servers) >= 2
    /\ wpc[2] = "raised" /\ results[2] = None
    /\ ret[2].error = "Unknown"
    /\ \E j \in 1..Len(servers) : ret[j].success

\* C24 as stated: set_system_time_utc_via_helper returns False with a message
\* when the helper file is not found (and then starts no process), when the
\* shell-out times out, when it cannot be started and when the elevation is
\* refused; it returns True only when the elevation request was issued.
C24_HelperFailure ==
    hpc = "returned" =>
        /\ ~HelperFound(h_env) => ~h_ret.ok /\ h_ret.msg # "" /\ h_spawned = 0
        /\ HelperFound(h_env) /\ h_env.shell \in {"timeout", "cannot_start", "rejected"}
              => ~h_ret.ok /\ h_ret.msg # ""
        /\ h_ret.ok => HelperFound(h_env) /\ h_env.shell = "issued"

\* C25 as stated: the elevated helper exits with 0 exactly when the privilege
\* was acquired and SetSystemTime succeeded, and with 2 when acquiring the
\* privilege failed or SetSystemTime failed.
C25_ExitStatus ==
    h_step = "exited" /\ h_priv # "unset" =>
        /\ h_exit = 0 <=> (h_priv = "True" /\ h_env.set_ok)
        /\ h_priv = "False" \/ ~h_env.set_ok => h_exit = 2

\* C26 as stated: at the end of a tick whose correction request failed
\* (set_system_time_utc_via_helper returned False), what the status observer
\* is called with describes the failure: last_result is not a plain
\* successful sample.
C26_FailureVisible ==
    \A t \in Threads :
        loop[t].pc = "notify" /\ tick.reqs # <<>> /\ ~tick.reqs[1].ok =>
            ~last_result.success \/ last_result.error # NoError

\* C28 as stated: the decisions of one tick use the settings as they were when
\* the tick began: a tick that began in manual mode (auto_select_server false,
\* preferred_server set) does not find auto_select_server true when it decides
\* on the best-server announcement.
C28_Snapshot ==
    \A t \in Threads :
        loop[t].pc = "got" /\ tick.manual0 => ~tick.auto_sel

\* C30 as stated: in manual mode, whatever the configured server list,
\* _choose_server probes the preferred server first: it returns the preferred
\* server's sample with no other server probed, or the preferred probe failed.
C30_PreferredFirst ==
    \A t \in Threads :
        loop[t].pc = "got" /\ tick.manual0 =>
            \/ /\ tick.via = "preferred"
               /\ tick.round = <<>>
               /\ loop[t].selected.success
            \/ tick.pref_failed

\* C29 as stated: every write of the loop to last_result, last_success_time,
\* running or last_best_server is followed by a call of the status observer
\* (for last_best_server: of the best-server callback) before the loop's next
\* write to that field, and no write of a loop that has ended is left
\* without one.
C29_ObserverFollows ==
    /\ \A f \in DOMAIN unseen : unseen[f] <= 1
    /\ Alive = {} /\ nthreads > 0 => unseen = AllSeen

\* C27 as stated: last_result, last_success_time, running and
\* last_best_server change only in steps of a scheduler loop thread: no step
\* of the sync_now worker changes any of them.
C27_SingleWriter ==
    [][\/ last_result' # last_result
       \/ last_success_time' # last_success_time
       \/ running' # running
       \/ last_best_server' # last_best_server
          => sn' = sn /\ \E t \in Threads : loop'[t] # loop[t]]_vars

\* the thread sleeps the second of line 97
Polling(t) == loop[t].pc = "sleep" /\ loop[t].after = "head" /\ wt.kind = ""

Probing(t) ==
    \/ loop[t].pc = "ch_pref"
    \/ loop[t].pc = "ch_host" /\ loop[t].hi <= Len(loop[t].servers)
    \/ loop[t].pc = "recheck"

\* C32, termination: a loop thread alive while stop_requested is set
\* eventually ends, and with its last step running becomes false.
C32_StopTerminates ==
    \A t \in Threads :
        (is_alive(t) /\ stop_requested) ~> (loop[t].pc = "dead" /\ ~is_alive(t))

\* C32, no interruption: stop() changes nothing of a loop thread, and a
\* thread inside a probe leaves it only by the probe's own return or
\* exception, stop requested or not; the thread's last step sets running
\* to false.
C32_ProbeCompletes ==
    [][\A t \in Threads :
          /\ stop_requested' # stop_requested /\ stop_requested' => loop' = loop
          /\ Probing(t) /\ loop'[t] # loop[t] =>
                loop'[t].pc \in {"ch_host", "got", "notify", "except"}
          /\ loop[t].pc # "dead" /\ loop'[t].pc = "dead" => ~running']_vars

\* C32: after stop() a live loop thread eventually ends and running becomes
\* false, every probe, sleep and shell-out returning; stop() interrupts no
\* probe.
C32_CooperativeStop == C32_StopTerminates /\ C32_ProbeCompletes

\* stop() was called while the loop thread is inside a probe
C32_Witness ==
    \E t \in Threads : Probing(t) /\ stop_requested /\ running

\* C33 as stated: a worker of ping_servers(samples = k) whose query_ntp failed
\* asks the ICMP fallback for exactly k echo requests.
C33_FallbackPings ==
    \A i \in 1..Len(servers) :
        wpc[i] \in {"waitlock", "incb", "done"} /\ icmp_rtt[i] # NotCalled =>
            pings[i] = samples

\* C34 as stated: in whatever state start() is called, a stop() shortly
\* before it or not, the call leaves a loop thread alive that no stop request
\* is about to end.
C34_StartWins ==
    ENABLED Start =>
        ENABLED (Start /\ ~stop_requested'
                       /\ loop'[thread'].pc \notin {"unborn", "dead"})

\* C35 as stated: while a stop request stands (stop() was called and no
\* start() has begun a new loop), no step issues a correction request, a probe
\* in flight at the time of stop() or not.
C35_NoRequestAfterStop ==
    [][stop_requested => Len(tick'.reqs) <= Len(tick.reqs)]_vars

\* r is a success that a query_ntp call produced
FromExchange(r) ==
    /\ r.success
    /\ r.error = NoError
    /\ \E outs \in SchedRounds \cup ManualRounds : r = query_ntp(r.server, outs)

\* C36: the sample that reaches the drift comparison, in the loop thread and
\* in the sync_now worker, is a success produced by query_ntp, and the drift
\* of every correction request is the offset of such a sample.
C36_OnlySuccess ==
    /\ \A t \in Threads :
           /\ loop[t].pc = "verify" => FromExchange(loop[t].selected)
           /\ loop[t].pc \in {"sleep", "recheck", "notify"} /\ tick.reqs # <<>> =>
                 /\ FromExchange(tick.selected[1])
                 /\ tick.reqs[1].drift = tick.selected[1].offset_ms
    /\ sn.pc = "verify" => FromExchange(sn.res)
    /\ sn.pc \in {"sleep", "stamp"} /\ sn.reqs # <<>> =>
           /\ FromExchange(sn.res)
           /\ sn.reqs[Len(sn.reqs)].drift = sn.res.offset_ms

\* the loop thread and the sync_now worker have each issued a request
C36_Witness ==
    /\ sn.pc = "sleep" /\ sn.reqs # <<>>
    /\ \E t \in Threads : loop[t].pc = "recheck" /\ tick.reqs # <<>>

\* the loop thread t waits out the settle delay of a request it issued
LoopOutstanding(t) ==
    loop[t].pc = "sleep" /\ loop[t].after = "recheck" /\ tick.reqs # <<>>

\* the sync_now worker waits out the delay after a request it issued
SnOutstanding == sn.pc = "sleep" /\ sn.reqs # <<>>

\* C37 as stated: a request of the loop thread and a request of the sync_now
\* worker are never outstanding at the same time.
C37_OneOutstanding ==
    \A t \in Threads : ~(LoopOutstanding(t) /\ SnOutstanding)

\* ping_servers returns only with every worker ended, and no progress
\* callback is made after the return
C38_ReturnsLast ==
    /\ [](ppc = "returned" => \A i \in 1..Len(servers) : wpc[i] \in {"done", "raised"})
    /\ [][ppc = "returned" => cb_log' = cb_log]_vars

\* C38 as stated: for every server list and every max_workers, ping_servers
\* eventually returns, and it returns only after every worker has ended.
C38_AsStated == <>(ppc = "returned") /\ C38_ReturnsLast

\* C38 (amended): for every server list and every max_workers >= 1 (and for
\* the empty list with any max_workers >= 0), ping_servers eventually returns;
\* for every max_workers it returns only after every worker has ended, and no
\* progress callback is made after the return.
C38_Terminates ==
    /\ (max_workers >= 1 \/ servers = <<>>) => <>(ppc = "returned")
    /\ C38_ReturnsLast

\* a call over three servers through a gate of one has returned after every
\* worker made its progress call
C38_Witness ==
    /\ ppc = "returned"
    /\ max_workers = 1
    /\ Len(servers) = MaxServers
    /\ Len(cb_log) = Len(servers)

\* C39: last_success_time is assigned only in a tick that selected a
\* successful sample and raised nothing: a tick that found no server and a
\* tick that ended in the except branch leave it as it was.
C39_StampOnlySelected ==
    /\ [](/\ tick.stamped =>
                /\ tick.kind = "sel" /\ ~tick.raised
                /\ tick.selected[1].success
          /\ tick.kind = "none" \/ tick.raised => ~tick.stamped)
    /\ [][last_success_time' # last_success_time =>
             /\ tick'.stamped /\ tick'.kind = "sel" /\ ~tick'.raised
             /\ \E t \in Threads : loop[t].pc \in {"verify", "recheck"}]_vars

\* a tick has ended in the except branch with last_success_time as
\* SyncState() made it
C39_Witness ==
    /\ last_success_time = 0
    /\ \E t \in Threads :
          /\ loop[t].pc = "notify"
          /\ tick.raised /\ last_result.server = "(error)"
    /\ nthreads = 1

\* C40: a _choose_server call that returns while auto_select_server is false
\* leaves last_best_server unchanged and makes no on_best_server_changed
\* call, whether it returns the preferred server's sample or the winner of
\* the loop over the list after the preferred probe failed.
C40_ManualSilent ==
    [][\A t \in Threads :
         /\ loop[t].pc \in {"ch_pref", "ch_host"}
         /\ loop'[t].pc = "got"
         /\ ~cfg.auto_select_server
         => /\ last_best_server' = last_best_server
            /\ tick'.emit = <<>>]_vars

\* in manual mode the preferred probe failed, the loop picked a server other
\* than the remembered one, and nothing was announced
C40_Witness ==
    \E t \in Threads :
        /\ loop[t].pc = "got"
        /\ tick.manual0 /\ tick.pref_failed /\ ~tick.auto_sel
        /\ ~cfg.auto_select_server
        /\ loop[t].selected # None
        /\ last_best_server # ""
        /\ loop[t].selected.server # last_best_server
        /\ last_best_server = tick.prev_best
        /\ tick.emit = <<>>

====
